---- MODULE Spec2Model ----
(***************************************************************************)
(* Object Transfer Service client (bluez-async-ots) and the control-point  *)
(* codec of ots-core.                                                      *)
(*                                                                         *)
(* The client is modelled as callers ("tasks") that run the async methods  *)
(* of OtsClient; every .await of the source is a position (pc) at which    *)
(* the GATT collaborator, the peer's OTS server, the timers and the other  *)
(* task may take a step.  The code between two awaits is one action.       *)
(***************************************************************************)
EXTENDS Integers, Sequences, FiniteSets, TLC

(***************************************************************************)
(* Bounds of the model.                                                    *)
(***************************************************************************)
\* calls the sequential caller makes on one client
MaxCalls == 1
\* events the device event stream of one transaction receives
MaxStream == 2
\* calls of next() on one DirEntries iterator
MaxNext == 4
\* polls of the stream in one read_exact / write_all
MaxPoll == 4
\* bytes one read(), read_to() or write() transfers
MaxXfer == 3

(***************************************************************************)
(* Results and errors (bluez-async-ots Error, ots-core Error).             *)
(***************************************************************************)
Ok(v) == [ok |-> TRUE, val |-> v]
Err(e) == [ok |-> FALSE, err |-> e]

NotSupported == [e |-> "NotSupported"]
NoResponse == [e |-> "NoResponse"]
BadResponse == [e |-> "BadResponse"]
Timeout == [e |-> "Timeout"]
\* BluetoothError of the GATT collaborator, std::io::Error of the socket
Bt == [e |-> "Bt"]
Io == [e |-> "Io"]
NotEnoughData(actual, needed) ==
  [e |-> "NotEnoughData", actual |-> actual, needed |-> needed]
BadOpCode(type_, code) == [e |-> "BadOpCode", type_ |-> type_, code |-> code]
ListError(rc) == [e |-> "ListError", rc |-> rc]
ActionError(rc) == [e |-> "ActionError", rc |-> rc]

\* values a call returns
Unit == [t |-> "unit"]
Bool(b) == [t |-> "bool", b |-> b]
U32(v) == [t |-> "u32", v |-> v]
Usize(v) == [t |-> "usize", v |-> v]
Bytes(v) == [t |-> "bytes", v |-> v]
StreamOf(task) == [t |-> "stream", owner |-> task]

(***************************************************************************)
(* Opcodes and result codes (impl_bc!).                                    *)
(***************************************************************************)
ListOp ==
  [First |-> 1, Last |-> 2, Previous |-> 3, Next |-> 4, GoTo |-> 5,
   Order |-> 6, NumberOf |-> 7, ClearMark |-> 8, Response |-> 112]

ListRc ==
  [Success |-> 1, OperationNotSupported |-> 2, InvalidParameter |-> 3,
   OperationFailed |-> 4, OutOfBounds |-> 5, TooManyObjects |-> 6,
   NoObject |-> 7, ObjectIdNotFound |-> 8]

ActionOp ==
  [Create |-> 1, Delete |-> 2, CheckSum |-> 3, Execute |-> 4, Read |-> 5,
   Write |-> 6, Abort |-> 7, Response |-> 96]

ActionRc ==
  [Success |-> 1, OperationNotSupported |-> 2, InvalidParameter |-> 3,
   InsufficientResources |-> 4, InvalidObject |-> 5, ChannelUnavailable |-> 6,
   UnsupportedType |-> 7, ProcedureNotPermitted |-> 8, ObjectLocked |-> 9,
   OperationFailed |-> 10]

\* TryFrom<u8>: the byte is accepted iff the enum's range condition holds
ListOpValid(raw) ==
  (raw >= ListOp.First /\ raw <= ListOp.ClearMark) \/ raw = ListOp.Response

ListRcValid(raw) == raw >= ListRc.Success /\ raw <= ListRc.ObjectIdNotFound

ActionOpValid(raw) ==
  (raw >= ActionOp.Create /\ raw <= ActionOp.Abort) \/ raw = ActionOp.Response

ActionRcValid(raw) == raw >= ActionRc.Success /\ raw <= ActionRc.OperationFailed

(***************************************************************************)
(* Little-endian integers.                                                 *)
(***************************************************************************)
\* A u32, usize or u64 is held as its 16-bit words, low word first, so that
\* every value of the type has a representation: 2 words for a u32, 4 for a
\* usize (64-bit target) or a u64.
Word == 65536

\* the u32 / the u64 of a small number
U32Of(i) == <<i % Word, i \div Word>>
U64Of(i) == <<i % Word, i \div Word, 0, 0>>

\* the n low-order bytes of v, most significant byte first
ToLeBytes_Mut(v, n) ==
  [k \in 1..n |->
     LET w == v[(n - k) \div 2 + 1]
     IN IF (n - k) % 2 = 0 THEN w % 256 ELSE w \div 256]

\* the n low-order bytes of v: v.to_le_bytes()[..n]
ToLeBytes(v, n) ==
  [k \in 1..n |->
     LET w == v[(k - 1) \div 2 + 1]
     IN IF (k - 1) % 2 = 0 THEN w % 256 ELSE w \div 256]

\* u16::from_le_bytes of the 2 bytes of raw that start at index from (1-based)
U16FromLe(raw, from) == raw[from] + 256 * raw[from + 1]

\* the 4 bytes read most significant byte first
U32FromLe_Mut(raw, from) ==
  <<raw[from + 3] + 256 * raw[from + 2], raw[from + 1] + 256 * raw[from]>>

\* u32::from_le_bytes of the 4 bytes of raw that start at index from (1-based)
U32FromLe(raw, from) == <<U16FromLe(raw, from), U16FromLe(raw, from + 2)>>

(***************************************************************************)
(* Request encoders.                                                       *)
(***************************************************************************)
ListReqBytes(req) ==
  CASE req.name = "First" -> <<ListOp.First>>
    [] req.name = "Last" -> <<ListOp.Last>>
    [] req.name = "Previous" -> <<ListOp.Previous>>
    [] req.name = "Next" -> <<ListOp.Next>>
    [] req.name = "GoTo" -> <<ListOp.GoTo>> \o ToLeBytes(req.id, 6)
    [] req.name = "Order" -> <<ListOp.Order, req.order>>
    [] req.name = "NumberOf" -> <<ListOp.NumberOf>>
    [] req.name = "ClearMark" -> <<ListOp.ClearMark>>

ActionReqBytes(req) ==
  CASE req.name = "Create" ->
         <<ActionOp.Create>> \o ToLeBytes(req.size, 4) \o req.type_
    [] req.name = "Delete" -> <<ActionOp.Delete>>
    [] req.name = "CheckSum" ->
         <<ActionOp.CheckSum>> \o ToLeBytes(req.offset, 4)
           \o ToLeBytes(req.length, 4)
    [] req.name = "Execute" -> <<ActionOp.Execute>> \o req.param
    [] req.name = "Read" ->
         <<ActionOp.Read>> \o ToLeBytes(req.offset, 4)
           \o ToLeBytes(req.length, 4)
    [] req.name = "Write" ->
         <<ActionOp.Write>> \o ToLeBytes(req.offset, 4)
           \o ToLeBytes(req.length, 4) \o <<req.mode>>
    [] req.name = "Abort" -> <<ActionOp.Abort>>

(***************************************************************************)
(* Response decoders.                                                      *)
(***************************************************************************)
\* a list decoder that parses the echoed opcode before the result code
ListResTryFrom_Mut(raw) ==
  IF Len(raw) < 3 THEN Err(NotEnoughData(Len(raw), 3))
  ELSE IF ~ListOpValid(raw[1]) THEN Err(BadOpCode("ListOp", raw[1]))
  ELSE IF raw[1] # ListOp.Response THEN Err(BadResponse)
  ELSE IF ~ListOpValid(raw[2]) THEN Err(BadOpCode("ListOp", raw[2]))
  ELSE IF ~ListRcValid(raw[3]) THEN Err(BadOpCode("ListRc", raw[3]))
  ELSE IF raw[3] = ListRc.Success THEN Ok([res |-> "None"])
  ELSE Err(ListError(raw[3]))

ListResNone == [res |-> "None"]
ListResNumberOf(count) == [res |-> "NumberOf", count |-> count]

ListResTryFrom(raw) ==
  IF Len(raw) < 3 THEN Err(NotEnoughData(Len(raw), 3))
  ELSE IF ~ListOpValid(raw[1]) THEN Err(BadOpCode("ListOp", raw[1]))
  ELSE IF raw[1] # ListOp.Response THEN Err(BadResponse)
  ELSE IF ~ListRcValid(raw[3]) THEN Err(BadOpCode("ListRc", raw[3]))
  ELSE IF raw[3] = ListRc.Success THEN
    IF ~ListOpValid(raw[2]) THEN Err(BadOpCode("ListOp", raw[2]))
    ELSE IF raw[2] = ListOp.NumberOf THEN
      IF Len(raw) < 7 THEN Err(NotEnoughData(Len(raw), 77))
      ELSE Ok(ListResNumberOf(U32FromLe(raw, 4)))
    ELSE Ok(ListResNone)
  ELSE Err(ListError(raw[3]))

\* the indices (0-based) of raw the list decoder reads
ListResReads(raw) ==
  IF Len(raw) < 3 THEN {}
  ELSE IF ~ListOpValid(raw[1]) \/ raw[1] # ListOp.Response THEN {0}
  ELSE IF ~ListRcValid(raw[3]) \/ raw[3] # ListRc.Success THEN {0, 2}
  ELSE IF ~ListOpValid(raw[2]) \/ raw[2] # ListOp.NumberOf \/ Len(raw) < 7
    THEN {0, 1, 2}
  ELSE 0..6

\* an action decoder that tests the marker before the length
ActionResTryFrom_Mut(raw) ==
  IF Len(raw) >= 1 /\ raw[1] # ActionOp.Response THEN Err(BadResponse)
  ELSE IF Len(raw) < 3 THEN Err(NotEnoughData(Len(raw), 3))
  ELSE IF ~ActionRcValid(raw[3]) THEN Err(BadOpCode("ActionRc", raw[3]))
  ELSE IF raw[3] = ActionRc.Success THEN Ok([res |-> "None"])
  ELSE Err(ActionError(raw[3]))

ActionResNone == [res |-> "None"]
ActionResCheckSum(value) == [res |-> "CheckSum", value |-> value]
ActionResExecute(param) == [res |-> "Execute", param |-> param]

ActionResTryFrom(raw) ==
  IF Len(raw) < 3 THEN Err(NotEnoughData(Len(raw), 3))
  ELSE IF ~ActionOpValid(raw[1]) THEN Err(BadOpCode("ActionOp", raw[1]))
  ELSE IF raw[1] # ActionOp.Response THEN Err(BadResponse)
  ELSE IF ~ActionRcValid(raw[3]) THEN Err(BadOpCode("ActionRc", raw[3]))
  ELSE IF raw[3] = ActionRc.Success THEN
    IF ~ActionOpValid(raw[2]) THEN Err(BadOpCode("ActionOp", raw[2]))
    ELSE IF raw[2] = ActionOp.CheckSum THEN
      IF Len(raw) < 7 THEN Err(NotEnoughData(Len(raw), 7))
      ELSE Ok(ActionResCheckSum(U32FromLe(raw, 4)))
    ELSE IF raw[2] = ActionOp.Execute THEN
      Ok(ActionResExecute(SubSeq(raw, 4, Len(raw))))
    ELSE Ok(ActionResNone)
  ELSE Err(ActionError(raw[3]))

\* the indices (0-based) of raw the action decoder reads
ActionResReads(raw) ==
  IF Len(raw) < 3 THEN {}
  ELSE IF ~ActionOpValid(raw[1]) \/ raw[1] # ActionOp.Response THEN {0}
  ELSE IF ~ActionRcValid(raw[3]) \/ raw[3] # ActionRc.Success THEN {0, 2}
  ELSE IF ~ActionOpValid(raw[2]) THEN {0, 1, 2}
  ELSE IF raw[2] = ActionOp.CheckSum /\ Len(raw) >= 7 THEN 0..6
  ELSE IF raw[2] = ActionOp.Execute THEN 0..(Len(raw) - 1)
  ELSE {0, 1, 2}

(***************************************************************************)
(* The generated commands (impl_fns!): control point, request, expected    *)
(* response variant and the feature bit that gates the command ("" = none).*)
(***************************************************************************)
Commands ==
  [create      |-> [point |-> "action", res |-> "None", feat |-> "Create"],
   delete      |-> [point |-> "action", res |-> "None", feat |-> "Delete"],
   check_sum   |-> [point |-> "action", res |-> "CheckSum", feat |-> "CheckSum"],
   execute     |-> [point |-> "action", res |-> "Execute", feat |-> "Execute"],
   do_read     |-> [point |-> "action", res |-> "None", feat |-> "Read"],
   do_write    |-> [point |-> "action", res |-> "None", feat |-> "Write"],
   abort       |-> [point |-> "action", res |-> "None", feat |-> "Abort"],
   first       |-> [point |-> "list", res |-> "None", feat |-> ""],
   last        |-> [point |-> "list", res |-> "None", feat |-> ""],
   do_previous |-> [point |-> "list", res |-> "None", feat |-> ""],
   do_next     |-> [point |-> "list", res |-> "None", feat |-> ""],
   do_go_to    |-> [point |-> "list", res |-> "None", feat |-> "GoTo"],
   order       |-> [point |-> "list", res |-> "None", feat |-> "Order"],
   number_of   |-> [point |-> "list", res |-> "NumberOf", feat |-> "NumberOf"],
   clear_mark  |-> [point |-> "list", res |-> "None", feat |-> "ClearMark"]]

ActionAll ==
  {"Create", "Delete", "CheckSum", "Execute", "Read", "Write", "Append",
   "Truncate", "Patch", "Abort"}

ListAll == {"GoTo", "Order", "NumberOf", "ClearMark"}

\* the feature words a server advertises in the model
ActionFeatureChoices == {ActionAll, ActionAll \ {"Write"}, {}}
ListFeatureChoices == {ListAll, {"NumberOf"}}

\* Option<usize> / Option<CharacteristicId> = None
NoLength == -1
NoChr == "none"

BulkReads == {"read", "read_to", "read_stream"}
BulkWrites == {"write", "write_stream"}
Bulk == BulkReads \cup BulkWrites

\* the generated command a public method runs
InnerCmd(cmd) ==
  CASE cmd = "previous" -> "do_previous"
    [] cmd = "next" -> "do_next"
    [] cmd = "go_to" -> "do_go_to"
    [] cmd \in BulkReads -> "do_read"
    [] cmd \in BulkWrites -> "do_write"
    [] OTHER -> cmd

(***************************************************************************)
(* The calls the model makes: a public method and its arguments.           *)
(***************************************************************************)
TestUuid == [i \in 1..16 |-> i]

Call0(cmd) ==
  [cmd |-> cmd, id |-> 0, order |-> 0, size |-> 0, offset |-> 0,
   length |-> NoLength, buffer |-> 0, mode |-> 0, param |-> <<>>]

Ops ==
  {Call0(c) : c \in {"delete", "abort", "first", "last", "previous", "next",
                     "number_of", "clear_mark"}}
  \cup {[Call0("go_to") EXCEPT !.id = i] : i \in {0, 171}}
  \cup {[Call0("order") EXCEPT !.order = 1]}
  \cup {[Call0("create") EXCEPT !.size = 3]}
  \cup {[Call0("check_sum") EXCEPT !.length = 16]}
  \cup {[Call0("execute") EXCEPT !.param = <<9>>]}
  \cup {[Call0("read") EXCEPT !.length = l] : l \in {NoLength, 1}}
  \cup {[Call0("read_to") EXCEPT !.buffer = 1]}
  \cup {Call0("read_stream")}
  \cup {[Call0("write") EXCEPT !.buffer = 1]}
  \cup {[Call0("write_stream") EXCEPT !.mode = 2]}

\* the commands two concurrent callers issue
ConcOps == {Call0(c) : c \in {"first", "delete"}}

\* Object Size values the server reports
SizeChoices == {[current |-> 2, allocated |-> 3]}

Min(a, b) == IF a < b THEN a ELSE b

\* the request a command puts on the wire, from the method's arguments
NoReq == [name |-> "none"]

ReqOf(o, length) ==
  CASE o.cmd = "create" ->
         [name |-> "Create", size |-> U64Of(o.size), type_ |-> TestUuid]
    [] o.cmd = "delete" -> [name |-> "Delete"]
    [] o.cmd = "check_sum" ->
         [name |-> "CheckSum", offset |-> U64Of(o.offset),
          length |-> U64Of(o.length)]
    [] o.cmd = "execute" -> [name |-> "Execute", param |-> o.param]
    [] o.cmd \in BulkReads ->
         [name |-> "Read", offset |-> U64Of(o.offset),
          length |-> U64Of(length)]
    [] o.cmd \in BulkWrites ->
         [name |-> "Write", offset |-> U64Of(o.offset),
          length |-> U64Of(length),
          mode |-> o.mode]
    [] o.cmd = "abort" -> [name |-> "Abort"]
    [] o.cmd = "first" -> [name |-> "First"]
    [] o.cmd = "last" -> [name |-> "Last"]
    [] o.cmd = "previous" -> [name |-> "Previous"]
    [] o.cmd = "next" -> [name |-> "Next"]
    [] o.cmd = "go_to" -> [name |-> "GoTo", id |-> U64Of(o.id)]
    [] o.cmd = "order" -> [name |-> "Order", order |-> o.order]
    [] o.cmd = "number_of" -> [name |-> "NumberOf"]
    [] o.cmd = "clear_mark" -> [name |-> "ClearMark"]

\* the length of the transfer, from the size read and the arguments
BulkLength(o, sizes) ==
  CASE o.cmd = "read" ->
         IF o.length = NoLength THEN sizes.current ELSE o.length
    [] o.cmd = "read_to" -> Min(o.buffer, sizes.current - o.offset)
    [] o.cmd = "read_stream" ->
         Min(IF o.length = NoLength THEN sizes.current ELSE o.length,
             sizes.current - o.offset)
    [] o.cmd = "write" -> Min(o.buffer, sizes.allocated - o.offset)
    [] o.cmd = "write_stream" ->
         Min(IF o.length = NoLength THEN sizes.allocated ELSE o.length,
             sizes.allocated - o.offset)

(***************************************************************************)
(* State.                                                                  *)
(***************************************************************************)
Tasks == {"a", "b"}
\* the caller of the sequential specification
MainTask == "a"
Chrs == {"oacp", "olcp"}

VARIABLES
  \* OtsClient fields, fixed by new()
  action_features, list_features, olcp_chr, sock_security,
  \* per task: the position in the running method, the call, its request
  pc, op, req, chr,
  \* per task: the open device event stream (events not yet polled), the
  \* events polled from it, the response value taken from it
  stream, seen, got,
  \* per task: the L2CAP socket of the call and the call's result
  sock, result,
  \* GATT collaborator: notifications enabled per characteristic
  notifying,
  \* OTS server: requests written to a control point and not yet answered
  pending,
  \* history: calls started so far, per task the number of its call, the
  \* I/O the call performed, and whether two calls ever ran at the same time
  calls, tid, log, overlap,
  \* a pure function of the crate applied on its own: the function, its
  \* input and what it returned
  fn, arg, out,
  \* a DirEntries iterator (raw, done) and what its next() returned so far
  ents, yielded

config == <<action_features, list_features, olcp_chr, sock_security>>
taskv == <<pc, op, req, chr, stream, seen, got, sock, result, tid, log>>
pure == <<fn, arg, out, ents, yielded>>
client == <<config, taskv, notifying, pending, calls, overlap>>
vars == <<client, pure>>

NoOp == [cmd |-> "none"]
NoEvent == [kind |-> "none"]
NoResult == [ok |-> FALSE, err |-> [e |-> "pending"]]
\* the result slot of a future the caller dropped
Cancelled == [ok |-> FALSE, err |-> [e |-> "cancelled"]]

InitClient ==
  /\ action_features \in ActionFeatureChoices
  /\ list_features \in ListFeatureChoices
  /\ olcp_chr \in {"olcp", NoChr}
  /\ sock_security \in BOOLEAN
  /\ pc = [t \in Tasks |-> "idle"]
  /\ op = [t \in Tasks |-> NoOp]
  /\ req = [t \in Tasks |-> NoReq]
  /\ chr = [t \in Tasks |-> NoChr]
  /\ stream = [t \in Tasks |-> <<>>]
  /\ seen = [t \in Tasks |-> <<>>]
  /\ got = [t \in Tasks |-> NoEvent]
  /\ sock = [t \in Tasks |-> "none"]
  /\ result = [t \in Tasks |-> NoResult]
  /\ tid = [t \in Tasks |-> 0]
  /\ log = [t \in Tasks |-> <<>>]
  /\ notifying = [c \in Chrs |-> FALSE]
  /\ pending = {}
  /\ calls = 0
  /\ overlap = FALSE

\* no pure function is applied on its own
Init ==
  /\ InitClient
  /\ fn = "none"
  /\ arg = <<>>
  /\ out = <<>>
  /\ ents = [raw |-> <<>>, done |-> TRUE]
  /\ yielded = <<>>

(***************************************************************************)
(* Helpers of the client.                                                  *)
(***************************************************************************)
\* a feature check that looks at the action features only
FeatureOk_Mut(cmd) ==
  LET c == Commands[cmd] IN
    \/ c.feat = ""
    \/ c.point = "action" /\ c.feat \in action_features
    \/ c.point = "list"

\* self.$feat_field.contains($feat_type::$feat_name)
FeatureOk(cmd) ==
  LET c == Commands[cmd] IN
    \/ c.feat = ""
    \/ c.point = "action" /\ c.feat \in action_features
    \/ c.point = "list" /\ c.feat \in list_features

\* a list command that takes the OLCP handle for present
ChrOf_Mut(cmd) == IF Commands[cmd].point = "action" THEN "oacp" ELSE "olcp"

\* impl_fns!(# self.$char_field): the characteristic of the command
ChrOf(cmd) == IF Commands[cmd].point = "action" THEN "oacp" ELSE olcp_chr

ReqBytes(c, r) == IF c = "oacp" THEN ActionReqBytes(r) ELSE ListReqBytes(r)

\* Error::Core(..): the core error a `?` converts
Core(e) == [e |-> "Core", inner |-> e]

\* $req_func: decode the response value of the control point
Decode(c, raw) ==
  LET d == IF c = "oacp" THEN ActionResTryFrom(raw) ELSE ListResTryFrom(raw) IN
    IF d.ok THEN d ELSE Err(Core(d.err))

\* $func: the response variant the command expects, or BadResponse
Expect(cmd, d) ==
  IF ~d.ok THEN d
  ELSE IF d.val.res # Commands[cmd].res THEN Err(BadResponse)
  ELSE CASE d.val.res = "None" -> Ok(Unit)
         [] d.val.res = "NumberOf" -> Ok(U32(d.val.count))
         [] d.val.res = "CheckSum" -> Ok(U32(d.val.value))
         [] d.val.res = "Execute" -> Ok(Bytes(d.val.param))

\* a go_to that takes the end-of-list code of previous() and next() for its miss
Navigate_Mut(cmd, r) ==
  IF cmd \in {"previous", "next", "go_to"}
  THEN IF r.ok THEN Ok(Bool(TRUE))
       ELSE IF r.err = Core(ListError(ListRc.OutOfBounds)) THEN Ok(Bool(FALSE))
       ELSE r
  ELSE r

\* previous(), next(), go_to(): the boolean the list error becomes
Navigate(cmd, r) ==
  CASE cmd \in {"previous", "next"} ->
         IF r.ok THEN Ok(Bool(TRUE))
         ELSE IF r.err = Core(ListError(ListRc.OutOfBounds)) THEN Ok(Bool(FALSE))
         ELSE r
    [] cmd = "go_to" ->
         IF r.ok THEN Ok(Bool(TRUE))
         ELSE IF r.err = Core(ListError(ListRc.ObjectIdNotFound))
           THEN Ok(Bool(FALSE))
         ELSE r
    [] OTHER -> r

\* what the public method pub makes of the response value raw of the control
\* point c: decoded, matched against the expected variant, then mapped by
\* previous(), next() and go_to()
Respond(pub, c, raw) ==
  Navigate(pub, Expect(InnerCmd(pub), Decode(c, raw)))

\* a filter that takes the value of any characteristic
Matches_Mut(ev, c) == ev.kind = "value"

\* the filter of the event stream: a value event of the control point
Matches(ev, c) == ev.kind = "value" /\ ev.id = c

\* an event stream that is subscribed once and outlives the transactions
StreamOpen_Mut(t) == pc[t] \in {"idle", "start_notify", "subscribe", "write", "await"}

\* the device event stream of a transaction receives the events of the
\* device from the subscription until the value is taken or the call returns
StreamOpen(t) == pc[t] \in {"write", "await"}

InFlight(t) == pc[t] \notin {"idle", "done"}

\* the event stream of t can take one more event
Room(t) == Len(seen[t]) + Len(stream[t]) < MaxStream

(***************************************************************************)
(* Steps of a call.                                                        *)
(***************************************************************************)
\* the call suspends at the await p
Step(t, p, lg, sk, st) ==
  /\ pc' = [pc EXCEPT ![t] = p]
  /\ log' = [log EXCEPT ![t] = lg]
  /\ sock' = [sock EXCEPT ![t] = sk]
  /\ stream' = [stream EXCEPT ![t] = st]
  /\ result' = result

\* a return that leaves the socket of the call as it is
Finish_Mut(t, r, lg, sk) ==
  /\ pc' = [pc EXCEPT ![t] = "done"]
  /\ log' = [log EXCEPT ![t] = lg]
  /\ sock' = [sock EXCEPT ![t] = sk]
  /\ stream' = [stream EXCEPT ![t] = <<>>]
  /\ result' = [result EXCEPT ![t] = r]

\* the call returns r: the event stream is dropped, and so is the socket
\* unless the call hands it to the caller as the returned stream
Finish(t, r, lg, sk) ==
  /\ pc' = [pc EXCEPT ![t] = "done"]
  /\ log' = [log EXCEPT ![t] = lg]
  /\ sock' = [sock EXCEPT ![t] =
       IF sk = "none" THEN "none"
       ELSE IF r.ok /\ r.val.t = "stream" THEN sk
       ELSE "closed"]
  /\ stream' = [stream EXCEPT ![t] = <<>>]
  /\ result' = [result EXCEPT ![t] = r]

\* $func up to its first await: the feature check, the characteristic of the
\* control point, then request() calls start_notify
Enter(t, cmd, pub, lg, sk) ==
  IF FeatureOk(cmd) /\ ChrOf(cmd) # NoChr
  THEN /\ chr' = [chr EXCEPT ![t] = ChrOf(cmd)]
       /\ Step(t, "start_notify", lg, sk, stream[t])
  ELSE /\ chr' = chr
       /\ Finish(t, Navigate(pub, Err(NotSupported)), lg, sk)

\* a public method is called
Call(t, o) ==
  /\ pc[t] = "idle"
  /\ calls' = calls + 1
  /\ tid' = [tid EXCEPT ![t] = calls + 1]
  /\ op' = [op EXCEPT ![t] = o]
  /\ overlap' = (overlap \/ \E u \in Tasks \ {t} : InFlight(u))
  /\ IF o.cmd \in Bulk
     THEN /\ chr' = chr
          /\ IF o.cmd = "read" /\ o.length # NoLength
             THEN /\ req' = [req EXCEPT ![t] = ReqOf(o, o.length)]
                  /\ Step(t, "socket", <<>>, "none", stream[t])
             ELSE /\ req' = req
                  /\ Step(t, "size", <<>>, "none", stream[t])
     ELSE /\ req' = [req EXCEPT ![t] = ReqOf(o, 0)]
          /\ Enter(t, InnerCmd(o.cmd), o.cmd, <<>>, "none")
  /\ UNCHANGED <<config, pure, seen, got, notifying, pending>>

\* a bulk method that issues the OACP request before it opens the channel
SizeRead_Mut(t) ==
  /\ pc[t] = "size"
  /\ \/ /\ req' = req
        /\ chr' = chr
        /\ Finish(t, Err(Bt), Append(log[t], "gatt_read"), sock[t])
     \/ \E s \in SizeChoices :
          /\ req' = [req EXCEPT ![t] = ReqOf(op[t], BulkLength(op[t], s))]
          /\ Enter(t, InnerCmd(op[t].cmd), op[t].cmd,
                   Append(log[t], "gatt_read"), "none")
  /\ UNCHANGED <<config, pure, op, seen, got, tid, notifying, pending, calls,
                 overlap>>

\* size(): the GATT read of Object Size completes
SizeRead(t) ==
  /\ pc[t] = "size"
  /\ \/ /\ req' = req
        /\ Finish(t, Err(Bt), Append(log[t], "gatt_read"), sock[t])
     \/ \E s \in SizeChoices :
          /\ req' = [req EXCEPT ![t] = ReqOf(op[t], BulkLength(op[t], s))]
          /\ Step(t, "socket", Append(log[t], "gatt_read"), "none", stream[t])
  /\ UNCHANGED <<config, pure, op, chr, seen, got, tid, notifying, pending, calls,
                 overlap>>

\* a socket() that binds before it sets the security
SocketOpen_Mut(t) ==
  /\ pc[t] = "socket"
  /\ \E outcome \in {"ok", "new", "security", "bind"} :
       /\ outcome = "security" => sock_security
       /\ LET sec == IF sock_security THEN <<"set_security">> ELSE <<>>
              lg == log[t] \o
                CASE outcome = "new" -> <<"socket_err">>
                  [] outcome = "security" ->
                       <<"socket", "bind", "set_security_err">>
                  [] outcome = "bind" -> <<"socket", "bind_err">>
                  [] outcome = "ok" -> <<"socket", "bind">> \o sec
          IN IF outcome = "ok" THEN Step(t, "connect", lg, "bound", stream[t])
             ELSE Finish(t, Err(Io), lg,
                         IF outcome = "new" THEN "none" ELSE "open")
  /\ UNCHANGED <<config, pure, op, req, chr, seen, got, tid, notifying, pending,
                 calls, overlap>>

\* socket(): Socket::new, set_security, bind, then connect is started
SocketOpen(t) ==
  /\ pc[t] = "socket"
  /\ \E outcome \in {"ok", "new", "security", "bind"} :
       /\ outcome = "security" => sock_security
       /\ LET sec == IF sock_security THEN <<"set_security">> ELSE <<>>
              lg == log[t] \o
                CASE outcome = "new" -> <<"socket_err">>
                  [] outcome = "security" -> <<"socket", "set_security_err">>
                  [] outcome = "bind" -> <<"socket">> \o sec \o <<"bind_err">>
                  [] outcome = "ok" -> <<"socket">> \o sec \o <<"bind">>
          IN IF outcome = "ok" THEN Step(t, "connect", lg, "bound", stream[t])
             ELSE Finish(t, Err(Io), lg,
                         IF outcome = "new" THEN "none" ELSE "open")
  /\ UNCHANGED <<config, pure, op, req, chr, seen, got, tid, notifying, pending,
                 calls, overlap>>

\* socket(): timeout(5 s, socket.connect(..)).  L2capSocket::connect calls
\* connect(2) on the socket while it is still blocking, and only then makes
\* it non-blocking and awaits its writable readiness: the timer is looked at
\* only when that await is pending.  The connect completes, fails, or the
\* readiness is still pending when the timer has fired (Timeout); a
\* connect(2) that fails after the 5 s have passed returns its I/O error.  A
\* build that logs then queries the stream (addresses, MTU, security) inside
\* debug!, and a failing query returns the error with the channel connected;
\* read_base/write_base then call do_read/do_write
Connect(t) ==
  /\ pc[t] = "connect"
  /\ \/ Enter(t, InnerCmd(op[t].cmd), op[t].cmd, Append(log[t], "connect"),
              "connected")
     \/ /\ chr' = chr
        /\ Finish(t, Err(Io), log[t] \o <<"connect", "stream_info_err">>,
                  "connected")
     \/ /\ chr' = chr
        /\ Finish(t, Err(Io), Append(log[t], "connect_err"), sock[t])
     \/ /\ chr' = chr
        /\ Finish(t, Err(Io), Append(log[t], "connect_err_late"), sock[t])
     \/ /\ chr' = chr
        /\ Finish(t, Err(Timeout), Append(log[t], "connect_timeout"), sock[t])
  /\ UNCHANGED <<config, pure, op, req, seen, got, tid, notifying, pending, calls,
                 overlap>>

\* a request() that writes the request without observing the event stream
StartNotify_Mut(t) ==
  /\ pc[t] = "start_notify"
  /\ \/ /\ notifying' = [notifying EXCEPT ![chr[t]] = TRUE]
        /\ Step(t, "write", Append(log[t], "start_notify"), sock[t], stream[t])
     \/ /\ notifying' = notifying
        /\ Finish(t, Navigate(op[t].cmd, Err(Bt)),
                  Append(log[t], "start_notify_err"), sock[t])
  /\ UNCHANGED <<config, pure, op, req, chr, seen, got, tid, pending, calls, overlap>>

\* request(): start_notify completes
StartNotify(t) ==
  /\ pc[t] = "start_notify"
  /\ \/ /\ notifying' = [notifying EXCEPT ![chr[t]] = TRUE]
        /\ Step(t, "subscribe", Append(log[t], "start_notify"), sock[t],
                stream[t])
     \/ /\ notifying' = notifying
        /\ Finish(t, Navigate(op[t].cmd, Err(Bt)),
                  Append(log[t], "start_notify_err"), sock[t])
  /\ UNCHANGED <<config, pure, op, req, chr, seen, got, tid, pending, calls, overlap>>

\* request(): device_event_stream completes; the filtered stream is built
Subscribe(t) ==
  /\ pc[t] = "subscribe"
  /\ \/ Step(t, "write", Append(log[t], "subscribe"), sock[t], stream[t])
     \/ Finish(t, Navigate(op[t].cmd, Err(Bt)),
               Append(log[t], "subscribe_err"), sock[t])
  /\ UNCHANGED <<config, pure, op, req, chr, seen, got, tid, notifying, pending,
                 calls, overlap>>

\* the request as the server holds it until it answers
Written(t) == [chr |-> chr[t], tid |-> tid[t], req |-> ReqBytes(chr[t], req[t])]

\* request(): write_characteristic_value completes
Write(t) ==
  /\ pc[t] = "write"
  /\ \/ /\ pending' = pending \cup {Written(t)}
        /\ Step(t, "await", Append(log[t], "write"), sock[t], stream[t])
     \/ /\ pending' = pending
        /\ Finish(t, Navigate(op[t].cmd, Err(Bt)),
                  Append(log[t], "write_err"), sock[t])
  /\ UNCHANGED <<config, pure, op, req, chr, seen, got, tid, notifying, calls,
                 overlap>>

\* request(): resps.next() polls one event of the stream; filter_map drops
\* it unless it is a value of the control point, take(1) ends at the first
Recv(t) ==
  /\ pc[t] = "await"
  /\ stream[t] # <<>>
  /\ LET ev == Head(stream[t]) IN
       /\ seen' = [seen EXCEPT ![t] = Append(seen[t], ev)]
       /\ IF Matches(ev, chr[t])
          THEN /\ got' = [got EXCEPT ![t] = ev]
               /\ Step(t, "stop_notify", Append(log[t], "recv"), sock[t], <<>>)
          ELSE /\ got' = got
               /\ Step(t, "await", log[t], sock[t], Tail(stream[t]))
  /\ UNCHANGED <<config, pure, op, req, chr, tid, notifying, pending, calls, overlap>>

\* request(): the 1 s sleep of take_until ends the stream: NoResponse
TimerFire(t) ==
  /\ pc[t] = "await"
  /\ Finish(t, Navigate(op[t].cmd, Err(NoResponse)),
            Append(log[t], "timeout"), sock[t])
  /\ UNCHANGED <<config, pure, op, req, chr, seen, got, tid, notifying, pending,
                 calls, overlap>>

\* request(): stop_notify completes; $req_func decodes the value, $func
\* matches the variant, the public method maps the result
StopNotify(t) ==
  /\ pc[t] = "stop_notify"
  /\ \/ /\ notifying' = notifying
        /\ Finish(t, Navigate(op[t].cmd, Err(Bt)),
                  Append(log[t], "stop_notify_err"), sock[t])
     \/ /\ notifying' = [notifying EXCEPT ![chr[t]] = FALSE]
        /\ LET r == Respond(op[t].cmd, chr[t], got[t].value)
               lg == log[t] \o <<"stop_notify", "decode">>
           IN IF op[t].cmd \notin Bulk
                THEN Finish(t, r, lg, sock[t])
              ELSE IF ~r.ok THEN Finish(t, r, lg, sock[t])
              ELSE IF op[t].cmd \in {"read_stream", "write_stream"}
                THEN Finish(t, Ok(StreamOf(t)), lg, sock[t])
              ELSE Step(t, "transfer", lg, sock[t], <<>>)
  /\ UNCHANGED <<config, pure, op, req, chr, seen, got, tid, pending, calls, overlap>>

\* read(), read_to(), write(): read_exact / write_all of `length` bytes
Transfer(t) ==
  /\ pc[t] = "transfer"
  /\ \/ Finish(t, Ok(Usize(req[t].length)), Append(log[t], "transfer"), sock[t])
     \/ Finish(t, Err(Io), Append(log[t], "transfer_err"), sock[t])
  /\ UNCHANGED <<config, pure, op, req, chr, seen, got, tid, notifying, pending,
                 calls, overlap>>

\* a client that gives up its feature bits and its OLCP handle once a call
\* has returned NotSupported
Return_Mut(t) ==
  /\ pc[t] = "done"
  /\ pc' = [pc EXCEPT ![t] = "idle"]
  /\ op' = [op EXCEPT ![t] = NoOp]
  /\ req' = [req EXCEPT ![t] = NoReq]
  /\ chr' = [chr EXCEPT ![t] = NoChr]
  /\ stream' = [stream EXCEPT ![t] = <<>>]
  /\ seen' = [seen EXCEPT ![t] = <<>>]
  /\ got' = [got EXCEPT ![t] = NoEvent]
  /\ sock' = [sock EXCEPT ![t] = "none"]
  /\ result' = [result EXCEPT ![t] = NoResult]
  /\ tid' = [tid EXCEPT ![t] = 0]
  /\ log' = [log EXCEPT ![t] = <<>>]
  /\ IF result[t] = Err(NotSupported)
     THEN /\ action_features' = {}
          /\ list_features' = {}
          /\ olcp_chr' = NoChr
          /\ sock_security' = sock_security
     ELSE UNCHANGED config
  /\ UNCHANGED <<pure, notifying, pending, calls, overlap>>

\* the caller takes the result; the task is free for the next call
Return(t) ==
  /\ pc[t] = "done"
  /\ pc' = [pc EXCEPT ![t] = "idle"]
  /\ op' = [op EXCEPT ![t] = NoOp]
  /\ req' = [req EXCEPT ![t] = NoReq]
  /\ chr' = [chr EXCEPT ![t] = NoChr]
  /\ stream' = [stream EXCEPT ![t] = <<>>]
  /\ seen' = [seen EXCEPT ![t] = <<>>]
  /\ got' = [got EXCEPT ![t] = NoEvent]
  /\ sock' = [sock EXCEPT ![t] = "none"]
  /\ result' = [result EXCEPT ![t] = NoResult]
  /\ tid' = [tid EXCEPT ![t] = 0]
  /\ log' = [log EXCEPT ![t] = <<>>]
  /\ UNCHANGED <<config, pure, notifying, pending, calls, overlap>>

\* the caller drops the pending future at an await; a collaborator call
\* that was already sent may still take effect
Drop(t) ==
  /\ pc[t] \in {"size", "connect", "start_notify", "subscribe", "write",
                "await", "stop_notify", "transfer"}
  /\ \/ notifying' = notifying
     \/ /\ pc[t] = "start_notify"
        /\ notifying' = [notifying EXCEPT ![chr[t]] = TRUE]
     \/ /\ pc[t] = "stop_notify"
        /\ notifying' = [notifying EXCEPT ![chr[t]] = FALSE]
  /\ \/ pending' = pending
     \/ /\ pc[t] = "write"
        /\ pending' = pending \cup {Written(t)}
  /\ Finish(t, Cancelled, Append(log[t], "drop"), sock[t])
  /\ UNCHANGED <<config, pure, op, req, chr, seen, got, tid, calls, overlap>>

(***************************************************************************)
(* The peer's OTS server and the device event stream.                      *)
(***************************************************************************)
\* the payload of a success response
Payload(c, opcode) ==
  IF c = "olcp" /\ opcode = ListOp.NumberOf THEN <<42, 0, 0, 0>>
  ELSE IF c = "oacp" /\ opcode = ActionOp.CheckSum THEN <<239, 190, 173, 0>>
  ELSE IF c = "oacp" /\ opcode = ActionOp.Execute THEN <<7>>
  ELSE <<>>

\* the result codes the server answers a request with: every code to a
\* navigation request (Previous, Next, GoTo), success and one failure to the rest
ReplyRcs(c, opcode) ==
  IF c = "oacp" THEN {ActionRc.Success, ActionRc.OperationFailed}
  ELSE IF opcode \in {ListOp.Previous, ListOp.Next, ListOp.GoTo}
    THEN {ListRc[n] : n \in DOMAIN ListRc}
  ELSE {ListRc.Success, ListRc.OperationFailed}

\* the values the server may send in answer to the request p: a response
\* that echoes the opcode, a truncated one, one with the other point's marker
Replies(p) ==
  LET opcode == p.req[1]
      marker == IF p.chr = "oacp" THEN ActionOp.Response ELSE ListOp.Response
      other == IF p.chr = "oacp" THEN ListOp.Response ELSE ActionOp.Response
  IN {<<marker, opcode, rc>>
        \o (IF rc = ListRc.Success THEN Payload(p.chr, opcode) ELSE <<>>) :
        rc \in ReplyRcs(p.chr, opcode)}
     \cup {<<marker, opcode>>, <<other, opcode, ListRc.Success>>}

ValueEvent(p, v) == [kind |-> "value", id |-> p.chr, value |-> v, tid |-> p.tid]

\* the server answers a request: a value event on every open event stream
\* when notifications of the characteristic are enabled, lost otherwise
Deliver(p, v) ==
  /\ p \in pending
  /\ pending' = pending \ {p}
  /\ IF notifying[p.chr]
     THEN /\ \A t \in Tasks : StreamOpen(t) => Room(t)
          /\ stream' = [t \in Tasks |->
               IF StreamOpen(t) THEN Append(stream[t], ValueEvent(p, v))
               ELSE stream[t]]
     ELSE stream' = stream
  /\ UNCHANGED <<config, pure, pc, op, req, chr, seen, got, sock, result, tid, log,
                 notifying, calls, overlap>>

\* events the filter of a transaction does not take: another kind of event,
\* a value of another characteristic
OtherEvents == {[kind |-> "other", id |-> "oacp", value |-> <<>>, tid |-> 0]}

OtherEvent(ev) ==
  /\ \E t \in Tasks : StreamOpen(t)
  /\ \A t \in Tasks : StreamOpen(t) => Room(t)
  /\ stream' = [t \in Tasks |->
       IF StreamOpen(t) THEN Append(stream[t], ev) ELSE stream[t]]
  /\ UNCHANGED <<config, pure, pc, op, req, chr, seen, got, sock, result, tid, log,
                 notifying, pending, calls, overlap>>

Environment ==
  \/ \E p \in pending : \E v \in Replies(p) : Deliver(p, v)
  \/ \E ev \in OtherEvents : OtherEvent(ev)

(***************************************************************************)
(* Specifications.                                                         *)
(***************************************************************************)
\* one caller that runs its calls one after the other
Next ==
  \/ calls < MaxCalls /\ \E o \in Ops : Call(MainTask, o)
  \/ SizeRead(MainTask)
  \/ SocketOpen(MainTask)
  \/ Connect(MainTask)
  \/ StartNotify(MainTask)
  \/ Subscribe(MainTask)
  \/ Write(MainTask)
  \/ Recv(MainTask)
  \/ TimerFire(MainTask)
  \/ StopNotify(MainTask)
  \/ Transfer(MainTask)
  \/ Return(MainTask)
  \/ Drop(MainTask)
  \/ Environment

Spec == Init /\ [][Next]_vars

\* one caller that runs bulk transfers one after the other, one call more
\* than the caller of Spec, on a server that supports every command or every
\* command but Write
InitBulk ==
  /\ Init
  /\ action_features \in {ActionAll, ActionAll \ {"Write"}}
  /\ list_features = ListAll
  /\ olcp_chr = "olcp"

NextBulk ==
  \/ calls < MaxCalls + 1
       /\ \E o \in {b \in Ops : b.cmd \in Bulk} : Call(MainTask, o)
  \/ SizeRead(MainTask)
  \/ SocketOpen(MainTask)
  \/ Connect(MainTask)
  \/ StartNotify(MainTask)
  \/ Subscribe(MainTask)
  \/ Write(MainTask)
  \/ Recv(MainTask)
  \/ TimerFire(MainTask)
  \/ StopNotify(MainTask)
  \/ Transfer(MainTask)
  \/ Return(MainTask)
  \/ Drop(MainTask)
  \/ Environment

SpecBulk == InitBulk /\ [][NextBulk]_vars

\* two callers that each run one control-point command, at the same time or
\* one after the other, on a client whose server supports every command
InitConc ==
  /\ Init
  /\ action_features = ActionAll
  /\ list_features = ListAll
  /\ olcp_chr = "olcp"
  /\ sock_security = FALSE

NextConc ==
  \/ \E t \in Tasks :
       \/ \E o \in ConcOps : Call(t, o)
       \/ StartNotify(t)
       \/ Subscribe(t)
       \/ Write(t)
       \/ Recv(t)
       \/ TimerFire(t)
       \/ StopNotify(t)
       \/ Drop(t)
  \/ Environment

SpecConc == InitConc /\ [][NextConc]_vars

(***************************************************************************)
(* The codec on its own: one request is encoded, one response value is     *)
(* decoded or handed to a command as the response of its transaction.      *)
(***************************************************************************)
\* the response marker of a control point
Marker(c) == IF c = "oacp" THEN ActionOp.Response ELSE ListOp.Response

\* bluez_async::uuid_from_u16: the Bluetooth base UUID with the 16-bit value
UuidFromU16(v) ==
  <<0, 0, v \div 256, v % 256, 0, 0, 16, 0, 128, 0, 0, 128, 95, 155, 52, 251>>

\* usize and u64 arguments: 0, 16, 0x1_DEAD_BEEF, 0x0807_0605_0403_0201, MAX
WideValues ==
  {U64Of(0), U64Of(16), <<48879, 57005, 1, 0>>, <<513, 1027, 1541, 2055>>,
   <<65535, 65535, 65535, 65535>>}

SortOrders == {1, 2, 3, 4, 5, 17, 18, 19, 20, 21}

ListReqs ==
  {[name |-> n] :
     n \in {"First", "Last", "Previous", "Next", "NumberOf", "ClearMark"}}
  \cup {[name |-> "GoTo", id |-> v] : v \in WideValues}
  \cup {[name |-> "Order", order |-> o] : o \in SortOrders}

ActionReqs ==
  {[name |-> "Delete"], [name |-> "Abort"]}
  \cup {[name |-> "Create", size |-> v, type_ |-> u] :
          v \in WideValues, u \in {TestUuid, UuidFromU16(9508)}}
  \cup {[name |-> n, offset |-> v, length |-> w] :
          n \in {"CheckSum", "Read"}, v \in WideValues, w \in WideValues}
  \cup {[name |-> "Write", offset |-> v, length |-> w, mode |-> m] :
          v \in WideValues, w \in WideValues, m \in {0, 2}}
  \cup {[name |-> "Execute", param |-> q] : q \in {<<>>, <<9>>, <<1, 2, 3>>}}

\* response values: short ones, every marker byte, every echoed opcode byte,
\* defined and undefined result codes, parameters of several lengths
Payloads ==
  {<<>>, <<42>>, <<42, 0, 0>>, <<42, 0, 0, 0>>, <<239, 190, 173, 222>>,
   <<239, 190, 173, 222, 5>>}

EchoChoices == (0..9) \cup {96, 112, 255}
RcChoices == (0..11) \cup {255}
ResponseMarkers == {ActionOp.Response, ListOp.Response}

ResponseValues ==
  {<<>>}
  \cup {<<m>> : m \in ResponseMarkers \cup {0, 255}}
  \cup {<<m, o>> : m \in ResponseMarkers \cup {0, 255}, o \in {1, 7}}
  \cup {<<m, o, r>> \o q :
          m \in ResponseMarkers, o \in EchoChoices, r \in RcChoices,
          q \in Payloads}
  \cup {<<m, o, r>> \o q :
          m \in 0..255, o \in {1, 7}, r \in {1, 4},
          q \in {<<>>, <<42, 0, 0, 0>>}}
  \cup {<<m, o, r>> : m \in ResponseMarkers, o \in 0..255, r \in 2..10}

CodecInputs ==
  {[kind |-> "ListReq", req |-> r, v |-> <<>>] : r \in ListReqs}
  \cup {[kind |-> "ActionReq", req |-> r, v |-> <<>>] : r \in ActionReqs}
  \cup {[kind |-> "response", req |-> NoReq, v |-> raw] :
          raw \in ResponseValues}

\* the public methods that run a control-point command
Pubs == {o.cmd : o \in Ops}
PointOf(pub) == IF Commands[InnerCmd(pub)].point = "action" THEN "oacp" ELSE "olcp"

Applied(f, r) ==
  /\ fn = "none"
  /\ fn' = f
  /\ out' = r
  /\ UNCHANGED <<arg, client, ents, yielded>>

\* Vec::<u8>::from(&ListReq) / Vec::<u8>::from(&ActionReq)
EncodeList == arg.kind = "ListReq" /\ Applied("ListReq", ListReqBytes(arg.req))
EncodeAction ==
  arg.kind = "ActionReq" /\ Applied("ActionReq", ActionReqBytes(arg.req))

\* ListRes::try_from(raw) / ActionRes::try_from(raw)
DecodeList ==
  /\ arg.kind = "response"
  /\ Applied("ListRes",
             [r |-> ListResTryFrom(arg.v), reads |-> ListResReads(arg.v)])
DecodeAction ==
  /\ arg.kind = "response"
  /\ Applied("ActionRes",
             [r |-> ActionResTryFrom(arg.v), reads |-> ActionResReads(arg.v)])

\* a command whose transaction received the value: what its caller gets when
\* stop_notify succeeds
Command(pub) ==
  /\ arg.kind = "response"
  /\ Len(arg.v) >= 3
  /\ arg.v[1] = Marker(PointOf(pub))
  /\ Applied("command",
             [pub |-> pub, r |-> Respond(pub, PointOf(pub), arg.v)])

InitCodec ==
  /\ InitClient
  /\ action_features = ActionAll
  /\ list_features = ListAll
  /\ olcp_chr = "olcp"
  /\ sock_security = FALSE
  /\ fn = "none"
  /\ out = <<>>
  /\ arg \in CodecInputs
  /\ ents = [raw |-> <<>>, done |-> TRUE]
  /\ yielded = <<>>

NextCodec ==
  \/ EncodeList
  \/ EncodeAction
  \/ DecodeList
  \/ DecodeAction
  \/ \E pub \in Pubs : Command(pub)

SpecCodec == InitCodec /\ [][NextCodec]_vars

(***************************************************************************)
(* Directory entries: Metadata::try_from and the DirEntries iterator.      *)
(***************************************************************************)
\* Option<T>
None == <<>>
Some(x) == <<x>>

Utf8Error == [e |-> "Utf8Error"]
InvalidDirFlags(bits) == [e |-> "InvalidDirFlags", bits |-> bits]
InvalidProps(bits) == [e |-> "InvalidProps", bits |-> bits]

\* bit b of the byte or 16-bit word v
HasBit(v, b) == (v \div (2 ^ b)) % 2 = 1

\* DirFlag: the bit of each flag; from_bits rejects any other bit
DirFlag ==
  [TypeUuid128 |-> 0, HasCurrentSize |-> 1, HasAllocatedSize |-> 2,
   HasFirstCreated |-> 3, HasLastModified |-> 4, HasProperties |-> 5,
   HasExtendedFlags |-> 7]

DirFlagValid(f) ==
  \A b \in 0..7 : HasBit(f, b) => \E n \in DOMAIN DirFlag : DirFlag[n] = b

\* Property: bits 0 (Delete) to 7 (Mark) of a u32; from_bits rejects the rest
PropertyValid(val) == val[1] < 256 /\ val[2] = 0
PropertyOf(val) == {b \in 0..7 : HasBit(val[1], b)}

\* core::str::from_utf8 accepts s
RECURSIVE Utf8Valid(_)
Utf8Valid(s) ==
  LET n == Len(s)
      cont(i, lo, hi) == i <= n /\ s[i] >= lo /\ s[i] <= hi
      rest(k) == Utf8Valid(SubSeq(s, k + 1, n))
  IN IF n = 0 THEN TRUE
     ELSE IF s[1] <= 127 THEN rest(1)
     ELSE IF s[1] >= 194 /\ s[1] <= 223 THEN cont(2, 128, 191) /\ rest(2)
     ELSE IF s[1] = 224 THEN
       cont(2, 160, 191) /\ cont(3, 128, 191) /\ rest(3)
     ELSE IF (s[1] >= 225 /\ s[1] <= 236) \/ s[1] \in {238, 239} THEN
       cont(2, 128, 191) /\ cont(3, 128, 191) /\ rest(3)
     ELSE IF s[1] = 237 THEN
       cont(2, 128, 159) /\ cont(3, 128, 191) /\ rest(3)
     ELSE IF s[1] = 240 THEN
       cont(2, 144, 191) /\ cont(3, 128, 191) /\ cont(4, 128, 191) /\ rest(4)
     ELSE IF s[1] >= 241 /\ s[1] <= 243 THEN
       cont(2, 128, 191) /\ cont(3, 128, 191) /\ cont(4, 128, 191) /\ rest(4)
     ELSE IF s[1] = 244 THEN
       cont(2, 128, 143) /\ cont(3, 128, 191) /\ cont(4, 128, 191) /\ rest(4)
     ELSE FALSE

\* DateTime::from(&[u8; 7]) of the 7 bytes of raw that start at index from
DateTimeFrom(raw, from) ==
  [year |-> U16FromLe(raw, from), month |-> raw[from + 2],
   day |-> raw[from + 3], hour |-> raw[from + 4], minute |-> raw[from + 5],
   second |-> raw[from + 6]]

\* the slice after its first n elements
Skip(r, n) == SubSeq(r, n + 1, Len(r))

\* Metadata::try_from, from the properties on
MetadataProps(m, flags, r) ==
  IF ~HasBit(flags, DirFlag.HasProperties)
    THEN Ok([m EXCEPT !.properties = {}])
  ELSE IF Len(r) < 4 THEN Err(NotEnoughData(Len(r), 4))
  ELSE IF ~PropertyValid(U32FromLe(r, 1))
    THEN Err(InvalidProps(U32FromLe(r, 1)))
  ELSE Ok([m EXCEPT !.properties = PropertyOf(U32FromLe(r, 1))])

\* Metadata::try_from, from the timestamps on; both are read under the
\* HasFirstCreated flag
MetadataTimes(m, flags, r) ==
  LET fc == HasBit(flags, DirFlag.HasFirstCreated) IN
    IF fc /\ Len(r) < 7 THEN Err(NotEnoughData(Len(r), 7))
    ELSE LET r1 == IF fc THEN Skip(r, 7) ELSE r
             m1 == [m EXCEPT !.first_created =
                      IF fc THEN Some(DateTimeFrom(r, 1)) ELSE None]
         IN IF fc /\ Len(r1) < 7 THEN Err(NotEnoughData(Len(r1), 7))
            ELSE MetadataProps(
                   [m1 EXCEPT !.last_modified =
                      IF fc THEN Some(DateTimeFrom(r1, 1)) ELSE None],
                   flags, IF fc THEN Skip(r1, 7) ELSE r1)

\* Metadata::try_from, from the sizes on (u32 widened to usize)
MetadataSizes(m, flags, r) ==
  LET cs == HasBit(flags, DirFlag.HasCurrentSize)
      as == HasBit(flags, DirFlag.HasAllocatedSize)
      usize(q) == U32FromLe(q, 1) \o <<0, 0>>
  IN IF cs /\ Len(r) < 4 THEN Err(NotEnoughData(Len(r), 4))
     ELSE LET r1 == IF cs THEN Skip(r, 4) ELSE r
              m1 == [m EXCEPT !.current_size =
                       IF cs THEN Some(usize(r)) ELSE None]
          IN IF as /\ Len(r1) < 4 THEN Err(NotEnoughData(Len(r1), 4))
             ELSE MetadataTimes(
                    [m1 EXCEPT !.allocated_size =
                       IF as THEN Some(usize(r1)) ELSE None],
                    flags, IF as THEN Skip(r1, 4) ELSE r1)

\* Metadata::try_from(raw)
MetadataTryFrom(raw) ==
  IF Len(raw) < 11 THEN Err(NotEnoughData(Len(raw), 11))
  ELSE
    LET id == <<U16FromLe(raw, 1), U16FromLe(raw, 3), U16FromLe(raw, 5), 0>>
        name_len == raw[7]
        r1 == Skip(raw, 7)
    IN IF Len(r1) < name_len + 1 + 2
         THEN Err(NotEnoughData(Len(r1), name_len + 1 + 2))
       ELSE
         LET name == SubSeq(r1, 1, name_len)
             flags == r1[name_len + 1]
             r2 == Skip(r1, name_len + 1)
             wide == HasBit(flags, DirFlag.TypeUuid128)
         IN IF ~Utf8Valid(name) THEN Err(Utf8Error)
            ELSE IF ~DirFlagValid(flags) THEN Err(InvalidDirFlags(flags))
            ELSE IF wide /\ Len(r2) < 16 THEN Err(NotEnoughData(Len(r2), 16))
            ELSE MetadataSizes(
                   [id |-> Some(id), name |-> name,
                    type_ |-> IF wide THEN SubSeq(r2, 1, 16)
                              ELSE UuidFromU16(U16FromLe(r2, 1)),
                    current_size |-> None, allocated_size |-> None,
                    first_created |-> None, last_modified |-> None,
                    properties |-> {}],
                   flags, Skip(r2, IF wide THEN 16 ELSE 2))

\* the outcome of a call that does not return: the thread panics
Panic == [ok |-> FALSE, err |-> [e |-> "panic"]]

\* a split_dir_entry that hands the record over with its length prefix
SplitDirEntry_Mut(raw) ==
  IF raw = <<>> THEN Ok(None)
  ELSE IF Len(raw) < 13 THEN Err(NotEnoughData(Len(raw), 13))
  ELSE LET record_len == U16FromLe(raw, 1) IN
    IF Len(raw) < record_len THEN Err(NotEnoughData(Len(raw), record_len))
    ELSE Ok(Some([fst |-> SubSeq(raw, 1, record_len),
                  rst |-> Skip(raw, record_len)]))

\* DirEntries::split_dir_entry(raw): &rec[2..] panics on a record shorter
\* than its own length prefix
SplitDirEntry(raw) ==
  IF raw = <<>> THEN Ok(None)
  ELSE IF Len(raw) < 13 THEN Err(NotEnoughData(Len(raw), 13))
  ELSE LET record_len == U16FromLe(raw, 1) IN
    IF Len(raw) < record_len THEN Err(NotEnoughData(Len(raw), record_len))
    ELSE IF record_len < 2 THEN Panic
    ELSE Ok(Some([fst |-> SubSeq(raw, 3, record_len),
                  rst |-> Skip(raw, record_len)]))

\* one call of next(): the remainder and the done flag it found, what it
\* returned (Option<Result<Metadata>>), the body it gave to the Metadata
\* decoder, and whether it panicked instead of returning
Yield(item, fed, panic) ==
  [from |-> ents.raw, was_done |-> ents.done, item |-> item, fed |-> fed,
   panic |-> panic]

\* DirEntries::next
DirNext ==
  /\ arg.kind = "directory"
  /\ Len(yielded) < MaxNext
  /\ yielded # <<>> => ~yielded[Len(yielded)].panic
  /\ LET s == SplitDirEntry(ents.raw) IN
       IF ents.done THEN
         /\ ents' = ents
         /\ yielded' = Append(yielded, Yield(None, None, FALSE))
       ELSE IF s = Panic THEN
         /\ ents' = ents
         /\ yielded' = Append(yielded, Yield(None, None, TRUE))
       ELSE IF ~s.ok THEN
         /\ ents' = [ents EXCEPT !.done = TRUE]
         /\ yielded' = Append(yielded, Yield(Some(Err(s.err)), None, FALSE))
       ELSE IF s.val = None THEN
         /\ ents' = [ents EXCEPT !.done = TRUE]
         /\ yielded' = Append(yielded, Yield(None, None, FALSE))
       ELSE
         /\ ents' = [raw |-> s.val[1].rst, done |-> s.val[1].rst = <<>>]
         /\ yielded' =
              Append(yielded,
                     Yield(Some(MetadataTryFrom(s.val[1].fst)),
                           Some(s.val[1].fst), FALSE))
  /\ UNCHANGED <<client, fn, arg, out>>

\* directory buffers: an entry is its length prefix, the id 1, the name, the
\* flags and the fields after the flags
Entry(name, flags, tail) ==
  LET body == <<1, 0, 0, 0, 0, 0, Len(name)>> \o name \o <<flags>> \o tail
  IN <<Len(body) + 2, 0>> \o body

\* the fields the layout of the Object Transfer Service puts after flags:
\* type 0x2524 or a 128-bit type, sizes 2 and 3, two timestamps, properties
WireFields(flags) ==
  (IF HasBit(flags, 0) THEN TestUuid ELSE <<36, 37>>)
  \o (IF HasBit(flags, 1) THEN <<2, 0, 0, 0>> ELSE <<>>)
  \o (IF HasBit(flags, 2) THEN <<3, 0, 0, 0>> ELSE <<>>)
  \o (IF HasBit(flags, 3) THEN <<232, 7, 1, 2, 3, 4, 5>> ELSE <<>>)
  \o (IF HasBit(flags, 4) THEN <<233, 7, 6, 7, 8, 9, 10>> ELSE <<>>)
  \o (IF HasBit(flags, 5) THEN <<5, 0, 0, 0>> ELSE <<>>)

\* the 12 bytes 0D 00 01 00 00 00 00 00 00 00 24 25
ShortOfPrefix == <<13, 0, 1, 0, 0, 0, 0, 0, 0, 0, 36, 37>>

DirBuffers ==
  {Entry(n, f, WireFields(f)) :
     n \in {<<>>, <<97>>, <<195, 169>>, <<255>>}, f \in (0..63) \cup {64, 128}}
  \cup {Entry(<<>>, f, WireFields(f) \o <<0>>) : f \in {0, 8, 16, 32}}
  \cup {Entry(<<97>>, 32, <<36, 37, 0, 1, 0, 0>>)}
  \cup {LET e == Entry(<<97>>, 63, WireFields(63))
        IN SubSeq(e, 1, Len(e) - 1)}
  \cup {e1 \o e2 :
          e1 \in {Entry(<<97>>, 0, <<36, 37>>), Entry(<<255>>, 0, <<36, 37>>),
                  Entry(<<97>>, 64, <<36, 37>>)},
          e2 \in {Entry(<<98>>, 0, <<36, 37>>), <<1, 2, 3>>}}
  \cup {[i \in 1..13 |-> 0], <<1>> \o [i \in 1..13 |-> 0]}
  \cup {<<>>, <<5>>, ShortOfPrefix}

InitDir ==
  /\ InitClient
  /\ action_features = ActionAll
  /\ list_features = ListAll
  /\ olcp_chr = "olcp"
  /\ sock_security = FALSE
  /\ fn = "none"
  /\ out = <<>>
  /\ arg \in {[kind |-> "directory", req |-> NoReq, v |-> b] : b \in DirBuffers}
  /\ ents = [raw |-> arg.v, done |-> FALSE]
  /\ yielded = <<>>

SpecDir == InitDir /\ [][DirNext]_vars

(***************************************************************************)
(* The length of a bulk transfer on its own: one of read, read_to,         *)
(* read_stream, write and write_stream is given its arguments and the      *)
(* Object Size the server reports, and builds its OACP request.  The       *)
(* offsets stay within the size: size - offset underflows otherwise.       *)
(***************************************************************************)
BulkCalls ==
  {[Call0(c) EXCEPT !.offset = f, !.length = l] :
     c \in {"read", "read_stream", "write_stream"}, f \in 0..3,
     l \in {NoLength, 0, 1, 2, 5}}
  \cup {[Call0(c) EXCEPT !.offset = f, !.buffer = b] :
          c \in {"read_to", "write"}, f \in 0..3, b \in {0, 1, 2, 5}}

\* the size that bounds the transfer of a method
WindowOf(o, sizes) ==
  IF o.cmd \in BulkReads THEN sizes.current ELSE sizes.allocated

LengthInputs ==
  {[kind |-> "length", o |-> o, sizes |-> [current |-> c, allocated |-> a]] :
     o \in BulkCalls, c \in {0, 2, 3}, a \in {3, 4}}

\* the method computes the length and builds the request of do_read/do_write
BuildRequest ==
  /\ arg.kind = "length"
  /\ Applied("BulkLength", ReqOf(arg.o, BulkLength(arg.o, arg.sizes)))

InitLen ==
  /\ InitClient
  /\ action_features = ActionAll
  /\ list_features = ListAll
  /\ olcp_chr = "olcp"
  /\ sock_security = FALSE
  /\ fn = "none"
  /\ out = <<>>
  /\ arg \in {i \in LengthInputs : i.o.offset <= WindowOf(i.o, i.sizes)}
  /\ ents = [raw |-> <<>>, done |-> TRUE]
  /\ yielded = <<>>

SpecLen == InitLen /\ [][BuildRequest]_vars

(***************************************************************************)
(* The fixed-width decoders, the getters of the selected object,           *)
(* metadata() and new(), each applied on its own to what the GATT          *)
(* collaborator answers.                                                   *)
(***************************************************************************)
BadUuidSize(len) == [e |-> "BadUuidSize", len |-> len]
TooManyData(actual, needed) ==
  [e |-> "TooManyData", actual |-> actual, needed |-> needed]
NotFound == [e |-> "NotFound"]
\* Error::Bt(e): the collaborator's error e
BtError(e) == [e |-> "Bt", inner |-> e]

\* a conversion that keeps the last 6 of the 8 little-endian bytes
Ule48From_Mut(v) == SubSeq(ToLeBytes(v, 8), 3, 8)

\* Ule48::from(u64): the first 6 of the 8 little-endian bytes
Ule48From(v) == SubSeq(ToLeBytes(v, 8), 1, 6)

\* u64::from(Ule48): the 6 bytes and two zero bytes, little-endian
U64FromUle48(raw) ==
  <<U16FromLe(raw, 1), U16FromLe(raw, 3), U16FromLe(raw, 5), 0>>

\* Ule48::try_from(&[u8])
Ule48TryFrom(raw) ==
  IF Len(raw) < 6 THEN Err(NotEnoughData(Len(raw), 6))
  ELSE Ok(SubSeq(raw, 1, 6))

\* a Property decoder that masks the undefined bits away (from_bits_truncate)
PropertyTryFrom_Mut(raw) ==
  IF Len(raw) < 4 THEN Err(NotEnoughData(Len(raw), 4))
  ELSE Ok({b \in 0..7 : HasBit(raw[1], b)})

\* Property::try_from(&[u8]), over Property::try_from([u8; 4])
PropertyTryFrom(raw) ==
  IF Len(raw) < 4 THEN Err(NotEnoughData(Len(raw), 4))
  ELSE IF ~PropertyValid(U32FromLe(raw, 1))
    THEN Err(InvalidProps(U32FromLe(raw, 1)))
  ELSE Ok(PropertyOf(U32FromLe(raw, 1)))

\* Property::bits(): the u32 of a set of flags
PropertyBits(flags) ==
  LET RECURSIVE sum(_)
      sum(b) == IF b > 7 THEN 0
                ELSE (IF b \in flags THEN 2 ^ b ELSE 0) + sum(b + 1)
  IN U32Of(sum(0))

\* Sizes::try_from(&[u8]): check_size_exact, then the two u32 widened to usize
SizesTryFrom(raw) ==
  IF Len(raw) < 8 THEN Err(NotEnoughData(Len(raw), 8))
  ELSE IF Len(raw) > 8 THEN Err(TooManyData(Len(raw), 8))
  ELSE Ok([current |-> U32FromLe(raw, 1) \o <<0, 0>>,
           allocated |-> U32FromLe(raw, 5) \o <<0, 0>>])

\* DateTime::try_from(&[u8])
DateTimeTryFrom(raw) ==
  IF Len(raw) < 7 THEN Err(NotEnoughData(Len(raw), 7))
  ELSE Ok(DateTimeFrom(raw, 1))

\* uuid_from_raw: a 16-bit or 32-bit value on the Bluetooth base UUID, or
\* the 16 bytes
UuidFromRaw(raw) ==
  CASE Len(raw) = 2 -> Ok(UuidFromU16(U16FromLe(raw, 1)))
    [] Len(raw) = 4 ->
         Ok(<<raw[4], raw[3], raw[2], raw[1]>>
              \o SubSeq(UuidFromU16(0), 5, 16))
    [] Len(raw) = 16 -> Ok(raw)
    [] OTHER -> Err(BadUuidSize(Len(raw)))

\* the optional characteristic a getter reads, if it reads an optional one
OptionalOf ==
  [id |-> "id_chr", first_created |-> "crt_chr", last_modified |-> "mod_chr"]

\* the getters in the order metadata() calls them
Getters ==
  <<"id", "name", "type_", "size", "first_created", "last_modified",
    "properties">>

\* a getter that reads its optional characteristic without looking whether
\* new() resolved it
Getter_Mut(env, g) ==
  LET raw == env.gatt[g]
      d == CASE g = "id" -> Ule48TryFrom(raw.val)
             [] g = "name" ->
                  IF Utf8Valid(raw.val) THEN Ok(raw.val) ELSE Err(Utf8Error)
             [] g = "type_" -> UuidFromRaw(raw.val)
             [] g = "size" -> SizesTryFrom(raw.val)
             [] g \in {"first_created", "last_modified"} ->
                  DateTimeTryFrom(raw.val)
             [] g = "properties" -> PropertyTryFrom(raw.val)
  IN IF ~raw.ok THEN [r |-> Err(Bt), reads |-> <<g>>]
     ELSE IF ~d.ok THEN [r |-> Err(Core(d.err)), reads |-> <<g>>]
     ELSE [r |-> Ok(CASE g = "id" -> Some(U64FromUle48(d.val))
                      [] g \in {"first_created", "last_modified"} ->
                           Some(d.val)
                      [] OTHER -> d.val),
           reads |-> <<g>>]

\* id(), name(), type_(), size(), first_created(), last_modified(),
\* properties(): the result and the characteristics read, given which
\* optional characteristics new() resolved (env.has) and what the GATT read
\* of each characteristic answers (env.gatt)
Getter(env, g) ==
  LET raw == env.gatt[g]
      d == CASE g = "id" -> Ule48TryFrom(raw.val)
             [] g = "name" ->
                  IF Utf8Valid(raw.val) THEN Ok(raw.val) ELSE Err(Utf8Error)
             [] g = "type_" -> UuidFromRaw(raw.val)
             [] g = "size" -> SizesTryFrom(raw.val)
             [] g \in {"first_created", "last_modified"} ->
                  DateTimeTryFrom(raw.val)
             [] g = "properties" -> PropertyTryFrom(raw.val)
  IN IF g \in DOMAIN OptionalOf /\ OptionalOf[g] \notin env.has
       THEN [r |-> Ok(None), reads |-> <<>>]
     ELSE IF ~raw.ok THEN [r |-> Err(Bt), reads |-> <<g>>]
     ELSE IF ~d.ok THEN [r |-> Err(Core(d.err)), reads |-> <<g>>]
     ELSE [r |-> Ok(CASE g = "id" -> Some(U64FromUle48(d.val))
                      [] g \in {"first_created", "last_modified"} ->
                           Some(d.val)
                      [] OTHER -> d.val),
           reads |-> <<g>>]

\* a metadata() that propagates the error of size() and of properties()
MetadataOf_Mut(env) ==
  LET g(i) == Getter(env, Getters[i])
      stop == {i \in DOMAIN Getters : ~g(i).r.ok}
      last == IF stop = {} THEN Len(Getters)
              ELSE CHOOSE i \in stop : \A j \in stop : i <= j
      reads[i \in 0..Len(Getters)] ==
        IF i = 0 THEN <<>> ELSE reads[i - 1] \o g(i).reads
  IN [r |-> IF stop # {} THEN g(last).r
            ELSE Ok([id |-> g(1).r.val, name |-> g(2).r.val,
                     type_ |-> g(3).r.val,
                     current_size |-> Some(g(4).r.val.current),
                     allocated_size |-> Some(g(4).r.val.allocated),
                     first_created |-> g(5).r.val,
                     last_modified |-> g(6).r.val,
                     properties |-> g(7).r.val]),
      calls |-> SubSeq(Getters, 1, last),
      reads |-> reads[last]]

\* metadata(): the getters in order; the error of id, name, type_,
\* first_created and last_modified returns at once, a failed size() leaves
\* both sizes None, a failed properties() leaves the default
MetadataOf(env) ==
  LET g(i) == Getter(env, Getters[i])
      stop == {i \in {1, 2, 3, 5, 6} : ~g(i).r.ok}
      last == IF stop = {} THEN Len(Getters)
              ELSE CHOOSE i \in stop : \A j \in stop : i <= j
      reads[i \in 0..Len(Getters)] ==
        IF i = 0 THEN <<>> ELSE reads[i - 1] \o g(i).reads
  IN [r |-> IF stop # {} THEN g(last).r
            ELSE Ok([id |-> g(1).r.val, name |-> g(2).r.val,
                     type_ |-> g(3).r.val,
                     current_size |->
                       IF g(4).r.ok THEN Some(g(4).r.val.current) ELSE None,
                     allocated_size |->
                       IF g(4).r.ok THEN Some(g(4).r.val.allocated) ELSE None,
                     first_created |-> g(5).r.val,
                     last_modified |-> g(6).r.val,
                     properties |->
                       IF g(7).r.ok THEN g(7).r.val ELSE {}]),
      calls |-> SubSeq(Getters, 1, last),
      reads |-> reads[last]]

\* ActionFeature / ListFeature from 4 bytes: the bits 0..9 / 0..3 are defined,
\* any other bit is the error that carries the word
FeatureTryFrom(kind, raw) ==
  LET v == U32FromLe(raw, 1)
      top == IF kind = "action" THEN 9 ELSE 3
      HasBit32(w, b) == HasBit(w[b \div 16 + 1], b % 16)
  IN IF \E b \in 0..31 : b > top /\ HasBit32(v, b)
     THEN Err([e |-> IF kind = "action" THEN "BadActionFeatures"
                     ELSE "BadListFeatures",
               bits |-> v])
     ELSE Ok({b \in 0..top : HasBit32(v, b)})

\* the lookups and reads of new(), in its order
NewSteps ==
  <<"service", "characteristics", "ots_feature", "read_feature", "oacp_chr",
    "olcp_chr", "id_chr", "name_chr", "type_chr", "size_chr", "prop_chr",
    "crt_chr", "mod_chr", "adapter">>
OptionalChrs == {"olcp_chr", "id_chr", "crt_chr", "mod_chr"}

\* a new() that takes every failed lookup of an optional characteristic for
\* an absent characteristic
New_Mut(env) ==
  LET raw == env.feature.val
      af == FeatureTryFrom("action", SubSeq(raw, 1, 4))
      lf == FeatureTryFrom("list", SubSeq(raw, 5, 8))
      pass == Ok(Unit)
      step(n) ==
        CASE n = "read_feature" ->
               IF ~env.feature.ok THEN Err(BtError("other"))
               ELSE IF Len(raw) < 4 THEN Panic
               ELSE IF ~af.ok THEN Err(Core(af.err))
               ELSE IF Len(raw) < 8 THEN Panic
               ELSE IF ~lf.ok THEN Err(Core(lf.err))
               ELSE pass
          [] n = "adapter" ->
               IF env.adapter = "error" THEN Err(BtError("other"))
               ELSE IF env.adapter = "absent" THEN Err(NotFound)
               ELSE pass
          [] n \in OptionalChrs -> pass
          [] OTHER ->
               IF env.lookup[n] # "found" THEN Err(BtError(env.lookup[n]))
               ELSE pass
      stop == {i \in DOMAIN NewSteps : step(NewSteps[i]) # pass}
  IN IF stop # {}
     THEN step(NewSteps[CHOOSE i \in stop : \A j \in stop : i <= j])
     ELSE Ok([action_features |-> af.val, list_features |-> lf.val,
              has |-> {c \in OptionalChrs : env.lookup[c] = "found"}])

\* OtsClient::new: the service, the characteristic list, the Feature
\* characteristic and its value, the characteristics (an optional one that
\* is not found is absent), the adapter of the device
New(env) ==
  LET raw == env.feature.val
      af == FeatureTryFrom("action", SubSeq(raw, 1, 4))
      lf == FeatureTryFrom("list", SubSeq(raw, 5, 8))
      pass == Ok(Unit)
      step(n) ==
        CASE n = "read_feature" ->
               IF ~env.feature.ok THEN Err(BtError("other"))
               ELSE IF Len(raw) < 4 THEN Panic
               ELSE IF ~af.ok THEN Err(Core(af.err))
               ELSE IF Len(raw) < 8 THEN Panic
               ELSE IF ~lf.ok THEN Err(Core(lf.err))
               ELSE pass
          [] n = "adapter" ->
               IF env.adapter = "error" THEN Err(BtError("other"))
               ELSE IF env.adapter = "absent" THEN Err(NotFound)
               ELSE pass
          [] n \in OptionalChrs ->
               IF env.lookup[n] = "other" THEN Err(BtError("other"))
               ELSE pass
          [] OTHER ->
               IF env.lookup[n] # "found" THEN Err(BtError(env.lookup[n]))
               ELSE pass
      stop == {i \in DOMAIN NewSteps : step(NewSteps[i]) # pass}
  IN IF stop # {}
     THEN step(NewSteps[CHOOSE i \in stop : \A j \in stop : i <= j])
     ELSE Ok([action_features |-> af.val, list_features |-> lf.val,
              has |-> {c \in OptionalChrs : env.lookup[c] = "found"}])

SortOrder ==
  [NameAsc |-> 1, TypeAsc |-> 2, CurSizeAsc |-> 3, CrtTimeAsc |-> 4,
   ModTimeAsc |-> 5, NameDesc |-> 17, TypeDesc |-> 18, CurSizeDesc |-> 19,
   CrtTimeDesc |-> 20, ModTimeDesc |-> 21]

SortOrderValid(raw) ==
  \/ raw >= SortOrder.NameAsc /\ raw <= SortOrder.ModTimeAsc
  \/ raw >= SortOrder.NameDesc /\ raw <= SortOrder.ModTimeDesc

\* a conversion whose SortOrder condition is the one range NameAsc..ModTimeDesc
TryFromU8_Mut(type_, raw) ==
  LET table == CASE type_ = "SortOrder" -> SortOrder
                 [] type_ = "ListOp" -> ListOp
                 [] type_ = "ListRc" -> ListRc
                 [] type_ = "ActionOp" -> ActionOp
                 [] type_ = "ActionRc" -> ActionRc
      cond == CASE type_ = "SortOrder" ->
                     raw >= SortOrder.NameAsc /\ raw <= SortOrder.ModTimeDesc
                [] type_ = "ListOp" -> ListOpValid(raw)
                [] type_ = "ListRc" -> ListRcValid(raw)
                [] type_ = "ActionOp" -> ActionOpValid(raw)
                [] type_ = "ActionRc" -> ActionRcValid(raw)
      named == {n \in DOMAIN table : table[n] = raw}
  IN IF ~cond THEN Err(BadOpCode(type_, raw))
     ELSE IF named = {} THEN Ok("invalid")
     ELSE Ok(CHOOSE n \in named : TRUE)

\* impl_bc!: TryFrom<u8> for SortOrder, ListOp, ListRc, ActionOp, ActionRc.
\* A byte that passes the condition is reinterpreted as the enum: it is the
\* variant with that code, or no variant at all
TryFromU8(type_, raw) ==
  LET table == CASE type_ = "SortOrder" -> SortOrder
                 [] type_ = "ListOp" -> ListOp
                 [] type_ = "ListRc" -> ListRc
                 [] type_ = "ActionOp" -> ActionOp
                 [] type_ = "ActionRc" -> ActionRc
      cond == CASE type_ = "SortOrder" -> SortOrderValid(raw)
                [] type_ = "ListOp" -> ListOpValid(raw)
                [] type_ = "ListRc" -> ListRcValid(raw)
                [] type_ = "ActionOp" -> ActionOpValid(raw)
                [] type_ = "ActionRc" -> ActionRcValid(raw)
      named == {n \in DOMAIN table : table[n] = raw}
  IN IF ~cond THEN Err(BadOpCode(type_, raw))
     ELSE IF named = {} THEN Ok("invalid")
     ELSE Ok(CHOOSE n \in named : TRUE)

\* ListArgs::run of the command-line tool: the client calls it makes and
\* the printer it ends in, given the --dir option and what go_to(0) and
\* read(0, None) answer
ListArgsRun(cli) ==
  IF cli.dir /\ cli.go_to.ok
  THEN IF cli.read.ok
       THEN [calls |-> <<"go_to", "read">>, print |-> "print_directory_data"]
       ELSE [calls |-> <<"go_to", "read">>, print |-> "print_directory_iter"]
  ELSE [calls |-> IF cli.dir THEN <<"go_to">> ELSE <<>>,
        print |-> "print_directory_iter"]

\* what the collaborator and the caller hand to the functions: the answers
\* to the GATT reads of the getters with the optional characteristics
\* resolved, the answers to the lookups of new() (at most two of them fail),
\* u64 values, byte strings of 0 to 10 bytes, 32-bit patterns, bytes
UnitInputs ==
  LET answers ==
        [id |-> {<<1, 0, 0, 0, 0, 0>>, <<1, 2>>},
         name |-> {<<97>>, <<255>>},
         type_ |-> {<<36, 37>>, <<1>>},
         size |-> {<<2, 0, 0, 0, 3, 0, 0, 0>>, <<2, 0, 0, 0, 3, 0, 0>>},
         first_created |-> {<<232, 7, 1, 2, 3, 4, 5>>, <<232, 7, 1>>},
         last_modified |-> {<<233, 7, 6, 7, 8, 9, 10>>, <<>>},
         properties |-> {<<5, 0, 0, 0>>, <<0, 1, 0, 0>>}]
      read(g) == {Err(Bt)} \cup {Ok(b) : b \in answers[g]}
      gatts ==
        [id : read("id"), name : read("name"), type_ : read("type_"),
         size : read("size"), first_created : read("first_created"),
         last_modified : read("last_modified"),
         properties : read("properties")]
      names == {NewSteps[i] : i \in DOMAIN NewSteps}
                 \ {"read_feature", "adapter"}
      outcomes == {"found", "UuidNotFound", "other"}
      lookups ==
        {[n \in names |-> IF n = a THEN x ELSE IF n = b THEN y ELSE "found"] :
           a \in names, b \in names, x \in outcomes, y \in outcomes}
      features ==
        {Err(Bt), Ok(<<255, 3, 0, 0, 15, 0, 0, 0>>),
         Ok(<<51, 0, 0, 0, 4, 0, 0, 0>>), Ok(<<0, 4, 0, 0, 15, 0, 0, 0>>),
         Ok(<<255, 3, 0, 0, 16, 0, 0, 0>>), Ok(<<1, 0, 0>>),
         Ok(<<1, 0, 0, 0, 1, 0>>), Ok(<<0, 0, 1, 0, 1, 0>>)}
      words == {0, 1, 255, 256, 65535}
      bytes == {<<5, 0, 0, 0, 3, 0, 0, 0, 9, 7>>,
                <<0, 1, 0, 0, 0, 0, 0, 0, 0, 0>>,
                <<255, 255, 255, 255, 255, 255, 255, 255, 255, 255>>}
  IN {[kind |-> "getters", env |-> [has |-> h, gatt |-> g]] :
        h \in SUBSET {"id_chr", "crt_chr", "mod_chr"}, g \in gatts}
     \cup {[kind |-> "new",
              env |-> [lookup |-> l, feature |-> f, adapter |-> a]] :
             l \in lookups, f \in features,
             a \in {"found", "absent", "error"}}
     \cup {[kind |-> "u64", val |-> <<a, b, c, d>>] :
             a \in words, b \in words, c \in words, d \in words}
     \cup {[kind |-> "bytes", raw |-> SubSeq(b, 1, n)] : b \in bytes, n \in 0..10}
     \cup {[kind |-> "bits", val |-> <<lo, hi>>] :
             lo \in (0..1100) \cup {32768, 65535}, hi \in {0, 1, 32768}}
     \cup {[kind |-> "byte", code |-> b] : b \in 0..255}
     \cup {[kind |-> "list", cli |-> [dir |-> d, go_to |-> g, read |-> r]] :
             d \in BOOLEAN,
             g \in {Ok(Bool(TRUE)), Ok(Bool(FALSE)), Err(Bt),
                    Err(NotSupported)},
             r \in {Ok(Bytes(<<>>)), Err(Io)}}

\* one of the getters is called
CallGetter ==
  /\ arg.kind = "getters"
  /\ \E i \in DOMAIN Getters : Applied(Getters[i], Getter(arg.env, Getters[i]))

\* metadata() is called
CallMetadata ==
  arg.kind = "getters" /\ Applied("metadata", MetadataOf(arg.env))

\* OtsClient::new is called
CallNew == arg.kind = "new" /\ Applied("new", New(arg.env))

\* a u64 goes through Ule48 and back, and into a GoTo request
RoundTrip48 ==
  /\ arg.kind = "u64"
  /\ Applied("Ule48",
             [raw |-> Ule48From(arg.val),
              back |-> U64FromUle48(Ule48From(arg.val)),
              goto |-> ListReqBytes([name |-> "GoTo", id |-> arg.val])])

\* the decoders of the fixed-width values are given the same bytes
DecodeFixed ==
  /\ arg.kind = "bytes"
  /\ Applied("fixed",
             [Ule48 |-> Ule48TryFrom(arg.raw),
              Property |-> PropertyTryFrom(arg.raw),
              Sizes |-> SizesTryFrom(arg.raw)])

\* the flag types decode a bit pattern: Property and the features its 4
\* bytes, DirFlag its low byte; Property encodes the flags again
DecodeBits ==
  /\ arg.kind = "bits"
  /\ LET raw == ToLeBytes(arg.val, 4)
         pr == PropertyTryFrom(raw)
     IN Applied("bits",
                [Property |-> pr,
                 bits |-> IF pr.ok THEN PropertyBits(pr.val) ELSE <<>>,
                 DirFlag |->
                   IF DirFlagValid(raw[1])
                   THEN Ok({b \in 0..7 : HasBit(raw[1], b)})
                   ELSE Err(InvalidDirFlags(raw[1])),
                 ActionFeature |-> FeatureTryFrom("action", raw),
                 ListFeature |-> FeatureTryFrom("list", raw)])

\* a byte is converted to each of the code enums
DecodeCode ==
  /\ arg.kind = "byte"
  /\ Applied("code",
             [t \in {"SortOrder", "ListOp", "ListRc", "ActionOp", "ActionRc"}
                |-> TryFromU8(t, arg.code)])

\* the list command of the command-line tool runs
ListRun == arg.kind = "list" /\ Applied("list", ListArgsRun(arg.cli))

InitUnit ==
  /\ InitClient
  /\ action_features = ActionAll
  /\ list_features = ListAll
  /\ olcp_chr = "olcp"
  /\ sock_security = FALSE
  /\ fn = "none"
  /\ out = <<>>
  /\ arg \in UnitInputs
  /\ ents = [raw |-> <<>>, done |-> TRUE]
  /\ yielded = <<>>

NextUnit ==
  \/ CallGetter
  \/ CallMetadata
  \/ CallNew
  \/ RoundTrip48
  \/ DecodeFixed
  \/ DecodeBits
  \/ DecodeCode
  \/ ListRun

SpecUnit == InitUnit /\ [][NextUnit]_vars

(***************************************************************************)
(* The length of a bulk transfer whose offset lies beyond the size: the    *)
(* usize subtraction size - offset overflows.  A build with overflow       *)
(* checks aborts there, a build without them wraps around.                 *)
(***************************************************************************)
\* a - b on 64-bit words modulo 2^64, low word first
WrappingSub(a, b) ==
  LET borrow[i \in 0..4] ==
        IF i = 0 THEN 0
        ELSE IF a[i] - b[i] - borrow[i - 1] < 0 THEN 1 ELSE 0
  IN [i \in 1..4 |-> (a[i] - b[i] - borrow[i - 1] + Word) % Word]

\* usize::min
Min64(a, b) ==
  LET differ == {i \in 1..4 : a[i] # b[i]}
      top == CHOOSE i \in differ : \A j \in differ : j <= i
  IN IF differ = {} \/ a[top] < b[top] THEN a ELSE b

\* what read_to, read_stream, write and write_stream compute as the length
\* when offset > size: the abort of the overflow check, or the minimum with
\* the wrapped difference
BulkLengthOver(o, sizes) ==
  LET size == U64Of(WindowOf(o, sizes))
      given == IF o.cmd \in {"read_to", "write"} THEN U64Of(o.buffer)
               ELSE IF o.length = NoLength THEN size ELSE U64Of(o.length)
  IN {Panic, Ok(Min64(given, WrappingSub(size, U64Of(o.offset))))}

\* the method computes the length and, unless it aborted, builds the
\* request of do_read/do_write
BuildRequestOver ==
  /\ arg.kind = "over"
  /\ \E len \in BulkLengthOver(arg.o, arg.sizes) :
       Applied("BulkLengthOver",
               IF len.ok
               THEN Ok(ReqOf(arg.o, len.val[1] + Word * len.val[2]))
               ELSE len)

InitOver ==
  /\ InitClient
  /\ action_features = ActionAll
  /\ list_features = ListAll
  /\ olcp_chr = "olcp"
  /\ sock_security = FALSE
  /\ fn = "none"
  /\ out = <<>>
  /\ arg \in
       {i \in
          {[kind |-> "over", o |-> o,
            sizes |-> [current |-> c, allocated |-> a]] :
             o \in {[Call0(m) EXCEPT !.offset = f, !.length = l] :
                      m \in {"read_stream", "write_stream"}, f \in 1..5,
                      l \in {NoLength, 0, 1, 2, 5}}
                   \cup {[Call0(m) EXCEPT !.offset = f, !.buffer = b] :
                           m \in {"read_to", "write"}, f \in 1..5,
                           b \in {0, 1, 2, 5}},
             c \in {0, 2, 3}, a \in {3, 4}} :
          i.o.offset > WindowOf(i.o, i.sizes)}
  /\ ents = [raw |-> <<>>, done |-> TRUE]
  /\ yielded = <<>>

SpecOver == InitOver /\ [][BuildRequestOver]_vars

(***************************************************************************)
(* The transfer of read(), read_to() and write(): read_exact / write_all   *)
(* poll the stream until `length` bytes went through.  `out.moved` counts  *)
(* the bytes the socket took or gave, `yielded` lists the polls.           *)
(***************************************************************************)
IoCmds == {"read", "read_to", "write"}

WouldBlock == [poll |-> "would_block", n |-> 0]
Moved(n) == [poll |-> "data", n |-> n]
Failure == [poll |-> "error", n |-> 0]

\* read_exact(&mut buffer[..length]) / write_all(&buffer[..length]) begins:
\* with nothing to transfer it is Ok without polling the stream
StartIo ==
  /\ arg.kind = "io"
  /\ fn = "none"
  /\ fn' = arg.cmd
  /\ out' = [moved |-> 0,
             r |-> IF arg.length = 0 THEN Ok(Usize(U64Of(0))) ELSE NoResult]
  /\ UNCHANGED <<arg, client, ents, yielded>>

\* one poll of the stream ended as p (the bytes the socket call moved, an
\* error, or would-block): the transfer goes on, is complete, or fails; a
\* transfer of 0 bytes is UnexpectedEof / WriteZero
Polled(p) ==
  /\ yielded' = Append(yielded, p)
  /\ out' =
       IF p = WouldBlock THEN out
       ELSE IF p = Failure \/ p.n = 0 THEN [out EXCEPT !.r = Err(Io)]
       ELSE [moved |-> out.moved + p.n,
             r |-> IF out.moved + p.n = arg.length
                   THEN Ok(Usize(U64Of(arg.length))) ELSE NoResult]
  /\ UNCHANGED <<arg, client, ents, fn>>

\* a poll_read that hands a would-block of the socket to read_exact
PollRead_Mut ==
  /\ arg.kind = "io"
  /\ fn \in {"read", "read_to"}
  /\ out.r = NoResult
  /\ Len(yielded) < MaxPoll
  /\ \/ Polled(Failure)
     \/ /\ yielded' = Append(yielded, WouldBlock)
        /\ out' = [out EXCEPT !.r = Err(Io)]
        /\ UNCHANGED <<arg, client, ents, fn>>
     \/ \E n \in 0..(arg.length - out.moved) : Polled(Moved(n))

\* L2capStream::poll_read under read_exact: the socket read fills the
\* unfilled part of the buffer (0 bytes at end of data), fails, or would
\* block, and then the readiness is awaited again
PollRead ==
  /\ arg.kind = "io"
  /\ fn \in {"read", "read_to"}
  /\ out.r = NoResult
  /\ Len(yielded) < MaxPoll
  /\ \/ Polled(Failure)
     \/ Polled(WouldBlock)
     \/ \E n \in 0..(arg.length - out.moved) : Polled(Moved(n))

\* L2capStream::poll_write under write_all: send takes some of the bytes
\* left, fails, or would block
PollWrite ==
  /\ arg.kind = "io"
  /\ fn = "write"
  /\ out.r = NoResult
  /\ Len(yielded) < MaxPoll
  /\ \/ Polled(Failure)
     \/ Polled(WouldBlock)
     \/ \E n \in 0..(arg.length - out.moved) : Polled(Moved(n))

InitIo ==
  /\ InitClient
  /\ action_features = ActionAll
  /\ list_features = ListAll
  /\ olcp_chr = "olcp"
  /\ sock_security = FALSE
  /\ fn = "none"
  /\ out = <<>>
  /\ arg \in {[kind |-> "io", cmd |-> c, length |-> n] :
                c \in IoCmds, n \in 0..MaxXfer}
  /\ ents = [raw |-> <<>>, done |-> TRUE]
  /\ yielded = <<>>

NextIo ==
  \/ StartIo
  \/ PollRead
  \/ PollWrite

SpecIo == InitIo /\ [][NextIo]_vars

(***************************************************************************)
(* Properties.                                                             *)
(***************************************************************************)
Has(lg, e) == \E i \in DOMAIN lg : lg[i] = e
Pos(lg, e) == CHOOSE i \in DOMAIN lg : lg[i] = e
IsPrefix(s, r) == Len(s) <= Len(r) /\ \A i \in DOMAIN s : s[i] = r[i]

\* what a call did on the control-point characteristic
ControlIo ==
  {"start_notify", "start_notify_err", "subscribe", "subscribe_err", "write",
   "write_err", "recv", "timeout", "stop_notify", "stop_notify_err"}
InTransaction(t) ==
  pc[t] \in {"start_notify", "subscribe", "write", "await", "stop_notify"}

\* the feature bit of a public method, by the method's name
GateBit ==
  [create |-> "Create", delete |-> "Delete", check_sum |-> "CheckSum",
   execute |-> "Execute", abort |-> "Abort", read |-> "Read",
   read_to |-> "Read", read_stream |-> "Read", write |-> "Write",
   write_stream |-> "Write", go_to |-> "GoTo", order |-> "Order",
   number_of |-> "NumberOf", clear_mark |-> "ClearMark"]
ActionGated ==
  {"create", "delete", "check_sum", "execute", "abort", "read", "read_to",
   "read_stream", "write", "write_stream"}
ListGated == {"go_to", "order", "number_of", "clear_mark"}
BitClear(cmd) ==
  \/ cmd \in ActionGated /\ GateBit[cmd] \notin action_features
  \/ cmd \in ListGated /\ GateBit[cmd] \notin list_features

\* the generated command of the call has been entered: at once for a plain
\* command, after the channel is connected for do_read and do_write
CommandEntered(t) ==
  /\ op[t] # NoOp
  /\ op[t].cmd \in Bulk =>
       (Has(log[t], "connect") /\ ~Has(log[t], "stream_info_err"))

\* C1: a capability-gated command (create, delete, check_sum, execute, abort,
\* do_read, do_write; go_to, order, number_of, clear_mark) whose feature bit
\* is clear returns NotSupported and performs no start_notify, no
\* characteristic write and no stop_notify on the control point.
C1_GatedCommandRefused ==
  \A t \in Tasks :
    (op[t] # NoOp /\ BitClear(op[t].cmd)) =>
      /\ ~InTransaction(t)
      /\ \A e \in ControlIo : ~Has(log[t], e)
      /\ \A p \in pending : p.tid # tid[t]
      /\ (CommandEntered(t) => pc[t] = "done" /\ result[t] = Err(NotSupported))

C1_Witness ==
  \E t \in Tasks :
    /\ pc[t] = "done"
    /\ op[t].cmd = "check_sum"
    /\ BitClear(op[t].cmd)
    /\ result[t] = Err(NotSupported)

\* C2: in read, read_to, read_stream, write and write_stream the OACP
\* Read/Write request is written only after the L2CAP socket of the call has
\* been created, bound and connected; when socket creation, set_security,
\* bind or connect fails or times out, no OACP request is written.
SocketFailures ==
  {"socket_err", "set_security_err", "bind_err", "connect_err",
   "connect_err_late", "connect_timeout", "stream_info_err"}

WriteIssued(t) ==
  \/ pc[t] \in {"write", "await", "stop_notify", "transfer"}
  \/ Has(log[t], "write")
  \/ Has(log[t], "write_err")

C2_ChannelBeforeRequest ==
  \A t \in Tasks :
    (op[t] # NoOp /\ op[t].cmd \in Bulk) =>
      /\ WriteIssued(t) =>
           /\ Has(log[t], "socket") /\ Has(log[t], "bind")
           /\ Has(log[t], "connect")
           /\ Pos(log[t], "socket") < Pos(log[t], "bind")
           /\ Pos(log[t], "bind") < Pos(log[t], "connect")
           /\ \A i \in DOMAIN log[t] :
                log[t][i] \in {"write", "write_err"}
                  => Pos(log[t], "connect") < i
           /\ pc[t] # "done" => sock[t] = "connected"
      /\ (\E e \in SocketFailures : Has(log[t], e)) =>
           /\ ~WriteIssued(t)
           /\ \A p \in pending : p.tid # tid[t]

C2_Witness ==
  \E t \in Tasks :
    /\ op[t].cmd = "write_stream"
    /\ Has(log[t], "write")
    /\ pc[t] = "done"
    /\ result[t] = Ok(StreamOf(t))

\* C3: in every control-point transaction the events occur in the order
\* start_notify, subscription to the device event stream, exactly one write
\* of the request, receipt of the response value, stop_notify, decoding; the
\* request is never written before notifications are enabled and the event
\* stream is observed.
Canon == <<"start_notify", "subscribe", "write", "recv", "stop_notify", "decode">>
CanonSet == {Canon[i] : i \in DOMAIN Canon}
InCanon(e) == e \in CanonSet
Control(t) == SelectSeq(log[t], InCanon)

C3_TransactionOrder ==
  \A t \in Tasks :
    /\ IsPrefix(Control(t), Canon)
    /\ Has(log[t], "start_notify_err") => Control(t) = <<>>
    /\ Has(log[t], "subscribe_err") => Control(t) = SubSeq(Canon, 1, 1)
    /\ Has(log[t], "write_err") => Control(t) = SubSeq(Canon, 1, 2)
    /\ Has(log[t], "timeout") => Control(t) = SubSeq(Canon, 1, 3)
    /\ Has(log[t], "stop_notify_err") => Control(t) = SubSeq(Canon, 1, 4)
    /\ pc[t] = "subscribe" => Control(t) = SubSeq(Canon, 1, 1)
    /\ pc[t] \in {"write", "await"} =>
         /\ notifying[chr[t]]
         /\ Control(t) = SubSeq(Canon, 1, IF pc[t] = "write" THEN 2 ELSE 3)
    /\ (pc[t] = "done" /\ result[t].ok) => Control(t) = Canon

C3_Witness ==
  \E t \in Tasks :
    /\ pc[t] = "done"
    /\ op[t].cmd = "number_of"
    /\ result[t] = Ok(U32(U32Of(42)))
    /\ Control(t) = Canon

\* C4: when no value event of the control-point characteristic is delivered
\* before the wait timer fires, the transaction returns NoResponse; events of
\* other kinds or of other characteristics never complete the transaction; a
\* transaction that completes does so with the value of the first matching
\* event and takes at most one.
C4_FirstMatchingValue ==
  \A t \in Tasks :
    LET match(ev) == ev.kind = "value" /\ ev.id = chr[t]
        n == Len(seen[t])
    IN /\ \A i \in 1..(n - 1) : ~match(seen[t][i])
       /\ got[t] # NoEvent => (n > 0 /\ got[t] = seen[t][n] /\ match(got[t]))
       /\ got[t] = NoEvent => \A i \in 1..n : ~match(seen[t][i])
       /\ got[t] # NoEvent <=> Has(log[t], "recv")
       /\ (pc[t] = "done" /\ Has(log[t], "write") /\ got[t] = NoEvent
             /\ result[t] # Cancelled)
            => (result[t] = Err(NoResponse) /\ Has(log[t], "timeout"))
       /\ result[t] = Err(NoResponse) => (got[t] = NoEvent /\ Has(log[t], "write"))
       /\ (pc[t] = "done" /\ Has(log[t], "decode")) =>
            (result[t].ok <=>
               /\ Len(got[t].value) >= 3
               /\ got[t].value[1] = Marker(chr[t])
               /\ got[t].value[3] = 1)

C4_Witness ==
  \E t \in Tasks :
    /\ pc[t] = "done"
    /\ result[t].ok
    /\ Len(seen[t]) = 2
    /\ seen[t][1].kind = "value"
    /\ seen[t][1].id # chr[t]

\* C5: every transaction whose start_notify succeeded is followed by
\* stop_notify on the same characteristic however it ends (response,
\* NoResponse, failure of the subscription or of the write, dropped future).
C5_NotifyAlwaysStopped ==
  \A t \in Tasks :
    (pc[t] = "done" /\ Has(log[t], "start_notify")) =>
      (Has(log[t], "stop_notify") \/ Has(log[t], "stop_notify_err"))

\* C6: when a transaction T1 ended without its response (NoResponse or
\* cancellation) and the server's notification for T1 arrives during the
\* wait of a following transaction T2 on the same control point, the result
\* of T2 is never derived from the value sent in answer to T1.
C6_LateValueDiscarded ==
  \A t \in Tasks : \A u \in Tasks \ {t} :
    (/\ ~overlap
     /\ pc[u] = "done"
     /\ result[u] \in {Err(NoResponse), Cancelled}
     /\ got[t] # NoEvent)
      => got[t].tid # tid[u]

\* C7 as stated: two transactions started concurrently on the same control
\* point are serialized by the engine: the second's start_notify and write
\* never fall between the first's start_notify and stop_notify, and no
\* notification value is returned as the response of both.
InBracket(t) == pc[t] \in {"subscribe", "write", "await", "stop_notify"}

NeverInterleaved ==
  \A t \in Tasks : \A u \in Tasks \ {t} :
    /\ ~(InBracket(t) /\ InBracket(u) /\ chr[t] = chr[u])
    /\ (got[t] # NoEvent /\ got[u] # NoEvent) => got[t].tid # got[u].tid

C7_EngineSerializes == NeverInterleaved

\* C7 as amended: the engine does not serialize; transactions the caller runs
\* one after the other (the second started after the first returned) do not
\* interleave and never both return the same notification value.
C7_CallerSerialized == ~overlap => NeverInterleaved

C7_Witness ==
  /\ ~overlap
  /\ \A t \in Tasks : pc[t] = "done" /\ got[t] # NoEvent /\ chr[t] = "olcp"

\* C8: on a client whose action features lack Write, write(offset, buffer,
\* mode) returns NotSupported whatever the outcome of the size read and of
\* the channel setup, and never performs start_notify or a characteristic
\* write on the OACP characteristic.
C8_WriteAlwaysNotSupported ==
  \A t \in Tasks :
    (op[t] # NoOp /\ op[t].cmd = "write" /\ "Write" \notin action_features) =>
      /\ \A e \in ControlIo : ~Has(log[t], e)
      /\ (pc[t] = "done" /\ result[t] # Cancelled) => result[t] = Err(NotSupported)

\* the I/O a call may perform before or around its control-point request
CallIo ==
  ControlIo \cup
    {"gatt_read", "socket", "socket_err", "set_security",
     "set_security_err", "bind", "bind_err", "connect", "connect_err",
     "connect_err_late", "connect_timeout", "stream_info_err"}

\* C9: for every capability-gated public operation, the bulk entry points
\* read, read_to, read_stream (Read bit) and write, write_stream (Write bit)
\* included, the feature check comes before any I/O of the call: with the
\* bit clear the call performs no GATT read, no socket creation, bind or
\* connect and no control-point access.
C9_FeatureCheckBeforeIo ==
  \A t \in Tasks :
    (op[t] # NoOp /\ BitClear(op[t].cmd)) =>
      \A e \in CallIo : ~Has(log[t], e)

\* the code a navigation command reads as "no such object"
Miss(cmd) == IF cmd = "go_to" THEN ListRc.ObjectIdNotFound ELSE ListRc.OutOfBounds

\* C10: previous() and next() return Ok(true) on a success response,
\* Ok(false) exactly when the server answers OutOfBounds, and propagate every
\* other error (ObjectIdNotFound, NoResponse, NotSupported included);
\* go_to(id) returns Ok(true) on success, Ok(false) exactly when the server
\* answers ObjectIdNotFound (request 05 AB 00 00 00 00 00 answered by
\* 70 05 08), and propagates every other error (OutOfBounds included).
C10_NavigationResult ==
  \A t \in Tasks :
    (op[t] # NoOp /\ op[t].cmd \in {"previous", "next", "go_to"}) =>
      LET cmd == op[t].cmd
          v == got[t].value
          answered == /\ pc[t] = "done"
                      /\ Has(log[t], "decode")
                      /\ Len(v) >= 3
                      /\ v[1] = ListOp.Response
                      /\ ListOpValid(v[2])
      IN /\ (cmd = "go_to" /\ op[t].id = 171 /\ Has(log[t], "write")) =>
              ReqBytes(chr[t], req[t]) = <<5, 171, 0, 0, 0, 0, 0>>
         /\ (answered /\ v[3] = ListRc.Success /\ v[2] # ListOp.NumberOf) =>
              result[t] = Ok(Bool(TRUE))
         /\ (answered /\ v[3] = Miss(cmd)) => result[t] = Ok(Bool(FALSE))
         /\ (answered /\ ListRcValid(v[3])
               /\ v[3] \notin {ListRc.Success, Miss(cmd)}) =>
              result[t] = Err(Core(ListError(v[3])))
         /\ (pc[t] = "done" /\ result[t] = Ok(Bool(FALSE))) =>
              (answered /\ v[3] = Miss(cmd))
         /\ (pc[t] = "done" /\ result[t] = Ok(Bool(TRUE))) =>
              (answered /\ v[3] = ListRc.Success)
         /\ (pc[t] = "done" /\ Has(log[t], "timeout")) =>
              result[t] = Err(NoResponse)
         /\ (pc[t] = "done" /\ (olcp_chr = NoChr \/ BitClear(cmd))) =>
              result[t] = Err(NotSupported)

C10_Witness ==
  \E t \in Tasks :
    /\ pc[t] = "done"
    /\ op[t] # NoOp
    /\ op[t].cmd = "go_to"
    /\ op[t].id = 171
    /\ ReqBytes(chr[t], req[t]) = <<5, 171, 0, 0, 0, 0, 0>>
    /\ got[t] # NoEvent
    /\ got[t].value = <<112, 5, 8>>
    /\ result[t] = Ok(Bool(FALSE))

\* the defined result codes other than Success
ListFailures == (ListRc.Success + 1)..ListRc.ObjectIdNotFound
ActionFailures == (ActionRc.Success + 1)..ActionRc.OperationFailed

\* C11: a response of at least 3 bytes with the right marker and a defined
\* non-success result code rc decodes to ListError(rc) / ActionError(rc),
\* whatever the echoed opcode byte and the trailing bytes; every public
\* command other than previous, next and go_to returns that error unchanged
\* and never reports success.
C11_ResultCodeIsError ==
  LET raw == arg.v
      marked(m) == arg.kind = "response" /\ Len(raw) >= 3 /\ raw[1] = m
  IN /\ (fn = "ListRes" /\ marked(ListOp.Response) /\ raw[3] \in ListFailures)
          => out.r = Err(ListError(raw[3]))
     /\ (fn = "ActionRes" /\ marked(ActionOp.Response)
           /\ raw[3] \in ActionFailures)
          => out.r = Err(ActionError(raw[3]))
     /\ (fn = "command" /\ out.pub \notin {"previous", "next", "go_to"}) =>
          /\ (raw[1] = ListOp.Response /\ raw[3] \in ListFailures)
               => out.r = Err(Core(ListError(raw[3])))
          /\ (raw[1] = ActionOp.Response /\ raw[3] \in ActionFailures)
               => out.r = Err(Core(ActionError(raw[3])))

C11_Witness ==
  /\ fn = "command"
  /\ out.pub = "number_of"
  /\ arg.v = <<112, 9, 4, 42, 0, 0, 0>>
  /\ out.r = Err(Core(ListError(ListRc.OperationFailed)))

\* C12: decoding the ideal response [marker, opcode(r), 0x01] ++ payload of a
\* request r gives the expected result: None for First, Last, Previous, Next,
\* GoTo, Order, ClearMark, Create, Delete, Read, Write, Abort; NumberOf with
\* the count held little-endian in bytes 3..7 (70 07 01 2A 00 00 00 gives
\* 42); CheckSum with the value held little-endian in bytes 3..7
\* (60 03 01 EF BE AD DE gives 0xDEADBEEF); Execute with all bytes from
\* index 3 on.
C12_IdealResponseDecodes ==
  LET raw == arg.v
      ideal(m) == /\ arg.kind = "response"
                  /\ Len(raw) >= 3
                  /\ raw[1] = m
                  /\ raw[3] = 1
      le32 == <<raw[4] + 256 * raw[5], raw[6] + 256 * raw[7]>>
  IN /\ (fn = "ListRes" /\ ideal(ListOp.Response)) =>
          /\ (Len(raw) = 3 /\ raw[2] \in {ListOp.First, ListOp.Last,
                 ListOp.Previous, ListOp.Next, ListOp.GoTo, ListOp.Order,
                 ListOp.ClearMark})
               => out.r = Ok(ListResNone)
          /\ (Len(raw) = 7 /\ raw[2] = ListOp.NumberOf)
               => out.r = Ok(ListResNumberOf(le32))
          /\ raw = <<112, 7, 1, 42, 0, 0, 0>>
               => out.r = Ok(ListResNumberOf(U32Of(42)))
     /\ (fn = "ActionRes" /\ ideal(ActionOp.Response)) =>
          /\ (Len(raw) = 3 /\ raw[2] \in {ActionOp.Create, ActionOp.Delete,
                 ActionOp.Read, ActionOp.Write, ActionOp.Abort})
               => out.r = Ok(ActionResNone)
          /\ (Len(raw) = 7 /\ raw[2] = ActionOp.CheckSum)
               => out.r = Ok(ActionResCheckSum(le32))
          /\ raw = <<96, 3, 1, 239, 190, 173, 222>>
               => out.r = Ok(ActionResCheckSum(<<48879, 57005>>))
          /\ raw[2] = ActionOp.Execute
               => out.r = Ok(ActionResExecute(SubSeq(raw, 4, Len(raw))))

C12_Witness ==
  /\ fn = "ActionRes"
  /\ arg.v = <<96, 3, 1, 239, 190, 173, 222>>
  /\ out.r = Ok(ActionResCheckSum(<<48879, 57005>>))

\* the bytes b[from], b[from + 1], ... hold the n low-order 16-bit words of v,
\* little-endian: the field carries v modulo 2^(16 n)
Carries(b, from, v, n) ==
  \A k \in 0..(n - 1) :
    b[from + 2 * k] + 256 * b[from + 2 * k + 1] = v[k + 1]

\* C13: every encoded request starts with its opcode and has the fixed
\* layout: First, Last, Previous, Next, NumberOf, ClearMark, Delete, Abort 1
\* byte; GoTo 7 bytes (opcode, the 6 low-order bytes of id little-endian);
\* Order 2 bytes; Create 21 bytes (opcode, 4-byte LE size, 16-byte UUID);
\* CheckSum and Read 9 bytes (opcode, 4-byte LE offset, 4-byte LE length,
\* also for zero); Write 10 bytes (the same and the mode byte); Execute
\* 1 + len(param) bytes; offset, length and size carry the value modulo 2^32.
C13_RequestLayout ==
  LET r == arg.req
      b == out
  IN /\ fn = "ListReq" =>
          /\ Len(b) >= 1
          /\ b[1] = ListOp[r.name]
          /\ r.name \in {"First", "Last", "Previous", "Next", "NumberOf",
                         "ClearMark"} => Len(b) = 1
          /\ r.name = "GoTo" => (Len(b) = 7 /\ Carries(b, 2, r.id, 3))
          /\ r.name = "Order" => b = <<ListOp.Order, r.order>>
     /\ fn = "ActionReq" =>
          /\ Len(b) >= 1
          /\ b[1] = ActionOp[r.name]
          /\ r.name \in {"Delete", "Abort"} => Len(b) = 1
          /\ r.name = "Create" =>
               /\ Len(b) = 21
               /\ Carries(b, 2, r.size, 2)
               /\ SubSeq(b, 6, 21) = r.type_
          /\ r.name \in {"CheckSum", "Read"} =>
               /\ Len(b) = 9
               /\ Carries(b, 2, r.offset, 2)
               /\ Carries(b, 6, r.length, 2)
          /\ r.name = "Write" =>
               /\ Len(b) = 10
               /\ Carries(b, 2, r.offset, 2)
               /\ Carries(b, 6, r.length, 2)
               /\ b[10] = r.mode
          /\ r.name = "Execute" =>
               (Len(b) = 1 + Len(r.param) /\ SubSeq(b, 2, Len(b)) = r.param)
          /\ (r.name = "Read" /\ r.offset = U64Of(0) /\ r.length = U64Of(0))
               => b = <<5, 0, 0, 0, 0, 0, 0, 0, 0>>

C13_Witness ==
  /\ fn = "ActionReq"
  /\ arg.req.name = "Write"
  /\ arg.req.offset = <<48879, 57005, 1, 0>>
  /\ arg.req.length = U64Of(16)
  /\ out = <<6, 239, 190, 173, 222, 16, 0, 0, 0, 2>>

\* C14: a response of at least 3 bytes whose first byte is not the response
\* marker of its control point (any byte other than 0x70 for the list
\* decoder, other than 0x60 for the action decoder) decodes to BadResponse.
C14_WrongMarkerIsBadResponse ==
  LET raw == arg.v
      long == arg.kind = "response" /\ Len(raw) >= 3
  IN /\ (fn = "ListRes" /\ long /\ raw[1] # ListOp.Response)
          => out.r = Err(BadResponse)
     /\ (fn = "ActionRes" /\ long /\ raw[1] # ActionOp.Response)
          => out.r = Err(BadResponse)

\* C15: for both control points a response buffer of length 0, 1 or 2
\* decodes to NotEnoughData{actual = the length, needed = 3}, and the decoder
\* never reads a byte outside the buffer.
C15_ShortResponse ==
  (fn \in {"ListRes", "ActionRes"}) =>
    /\ Len(arg.v) < 3 =>
         (out.r = Err(NotEnoughData(Len(arg.v), 3)) /\ out.reads = {})
    /\ \A i \in out.reads : i >= 0 /\ i < Len(arg.v)

C15_Witness ==
  /\ fn = "ActionRes"
  /\ arg.v = <<112, 7>>
  /\ out.r = Err(NotEnoughData(2, 3))

\* what next() returned is an error / the end of the sequence
IsErr(y) == ~y.panic /\ y.item # None /\ ~y.item[1].ok
IsEnd(y) == ~y.panic /\ y.item = None

\* C16: once DirEntries::next has returned Some(Err(_)), from the record
\* framing or from decoding a record's body, every later call returns None;
\* once next has returned None, every later call returns None.
C16_ErrorEndsIteration ==
  \A i \in DOMAIN yielded : \A j \in DOMAIN yielded :
    (i < j /\ (IsErr(yielded[i]) \/ IsEnd(yielded[i]))) => IsEnd(yielded[j])

\* C17: next on an empty remainder returns None; on a non-empty remainder
\* shorter than 13 bytes NotEnoughData{actual = its length, needed = 13}; on
\* a remainder whose record_len exceeds its length NotEnoughData{actual = its
\* length, needed = record_len}; otherwise the body handed to the Metadata
\* decoder is exactly bytes 2..record_len of the record.
C17_RecordFraming ==
  \A k \in DOMAIN yielded :
    LET y == yielded[k]
        r == y.from
        n == Len(r)
        record_len == r[1] + 256 * r[2]
    IN ~y.was_done =>
         IF n = 0 THEN IsEnd(y)
         ELSE IF n < 13 THEN
           ~y.panic /\ y.item = Some(Err(NotEnoughData(n, 13)))
         ELSE IF record_len > n THEN
           ~y.panic /\ y.item = Some(Err(NotEnoughData(n, record_len)))
         ELSE ~y.panic /\ y.fed = Some(SubSeq(r, 3, record_len))

\* C18: in the Metadata decoded from a directory record every optional field
\* is present exactly when its own flag is set (current_size, allocated_size,
\* first_created, last_modified), and properties are read iff HasProperties
\* (otherwise empty); a record of the wire layout for its flags decodes with
\* those fields, and one too short for a flagged field gives NotEnoughData.
C18_FieldsFollowFlags ==
  \A k \in DOMAIN yielded :
    LET y == yielded[k] IN
      (~y.panic /\ y.item # None /\ y.item[1].ok) =>
        LET m == y.item[1].val
            body == y.fed[1]
            flags == body[8 + body[7]]
        IN /\ (m.current_size # None) <=> HasBit(flags, DirFlag.HasCurrentSize)
           /\ (m.allocated_size # None)
                <=> HasBit(flags, DirFlag.HasAllocatedSize)
           /\ (m.first_created # None)
                <=> HasBit(flags, DirFlag.HasFirstCreated)
           /\ (m.last_modified # None)
                <=> HasBit(flags, DirFlag.HasLastModified)
           /\ ~HasBit(flags, DirFlag.HasProperties) => m.properties = {}

\* the Metadata of scenario 6
Scenario6 ==
  [id |-> Some(U64Of(1)), name |-> <<>>, type_ |-> UuidFromU16(9508),
   current_size |-> None, allocated_size |-> None, first_created |-> None,
   last_modified |-> None, properties |-> {}]

\* C19: the buffer 0D 00 01 00 00 00 00 00 00 00 24 25 makes DirEntries yield
\* exactly Ok(Metadata{id 1, empty name, type 0x2524 on the base UUID, no
\* sizes, no timestamps, empty properties}) and then None; a single
\* well-formed entry with an empty name, flags 0 and a 16-bit type is
\* accepted.
C19_MinimalEntryAccepted ==
  (arg.kind = "directory"
     /\ arg.v \in {ShortOfPrefix, Entry(<<>>, 0, <<36, 37>>)}) =>
    /\ Len(yielded) >= 1 =>
         (~yielded[1].panic /\ yielded[1].item = Some(Ok(Scenario6)))
    /\ Len(yielded) >= 2 => IsEnd(yielded[2])

\* C19 as the code has it: the 12 bytes 0D 00 01 00 00 00 00 00 00 00 24 25
\* announce a 13-byte record and give NotEnoughData{actual 12, needed 13},
\* as does the 12-byte entry with an empty name; a 13-byte entry with a
\* one-byte name, flags 0 and a 16-bit type gives its Metadata; next then
\* returns None.
C19_MinimalEntryIs13Bytes ==
  LET first(item) ==
        /\ Len(yielded) >= 1 => (~yielded[1].panic /\ yielded[1].item = item)
        /\ Len(yielded) >= 2 => IsEnd(yielded[2])
  IN /\ arg.v \in {ShortOfPrefix, Entry(<<>>, 0, <<36, 37>>)} =>
          first(Some(Err(NotEnoughData(12, 13))))
     /\ arg.v = Entry(<<97>>, 0, <<36, 37>>) =>
          first(Some(Ok([Scenario6 EXCEPT !.name = <<97>>])))

C19_Witness ==
  /\ arg.v = Entry(<<97>>, 0, <<36, 37>>)
  /\ Len(yielded) = 2
  /\ yielded[1].item = Some(Ok([Scenario6 EXCEPT !.name = <<97>>]))

\* C20: for read, read_to, read_stream (size = current size) and write,
\* write_stream (size = allocated size) called with offset <= size, the
\* length of the OACP Read/Write request is min(L, size - offset), where L is
\* the requested length or the buffer length or, with no length given, the
\* size; the window offset..offset+length stays within the object.
C20_LengthWithinObject ==
  fn = "BulkLength" =>
    LET o == arg.o
        size == WindowOf(o, arg.sizes)
        L == IF o.cmd \in {"read_to", "write"} THEN o.buffer
             ELSE IF o.length = NoLength THEN size ELSE o.length
    IN /\ out.length = U64Of(Min(L, size - o.offset))
       /\ out.offset = U64Of(o.offset)

\* the 5-second timer of the call fired before its connect had completed
TimerBeforeConnect(t) ==
  Has(log[t], "connect_timeout") \/ Has(log[t], "connect_err_late")

\* C21: in a bulk operation, when the connect to the peer address has not
\* completed before the 5-second timer fires, the operation returns Timeout,
\* the socket created for it is closed and no OACP request is written.
C21_ConnectTimeout ==
  \A t \in Tasks :
    TimerBeforeConnect(t) =>
      /\ pc[t] = "done"
      /\ result[t] = Err(Timeout)
      /\ sock[t] = "closed"
      /\ ~WriteIssued(t)
      /\ \A e \in ControlIo : ~Has(log[t], e)
      /\ \A p \in pending : p.tid # tid[t]

\* the call handed its connected stream to the caller
HandedOver(t) == result[t].ok /\ result[t].val.t = "stream"

\* C22: each call of read, read_to, read_stream, write or write_stream
\* creates at most one L2CAP socket and starts without one; when read,
\* read_to or write returns, and when read_stream or write_stream returns
\* Err (also when the OACP transaction fails on the connected channel), the
\* socket of the call is closed; only a stream handed to the caller stays
\* open.
C22_SocketPerCall ==
  \A t \in Tasks :
    (op[t] # NoOp /\ op[t].cmd \in Bulk) =>
      /\ \A i \in DOMAIN log[t] : \A j \in DOMAIN log[t] :
           (log[t][i] = "socket" /\ log[t][j] = "socket") => i = j
      /\ pc[t] \in {"size", "socket"} => sock[t] = "none"
      /\ sock[t] = "none" <=> ~Has(log[t], "socket")
      /\ pc[t] = "done" =>
           IF HandedOver(t)
           THEN /\ op[t].cmd \in {"read_stream", "write_stream"}
                /\ sock[t] = "connected"
           ELSE sock[t] \in {"none", "closed"}

C22_Witness ==
  /\ pc[MainTask] = "done"
  /\ calls = 2
  /\ op[MainTask].cmd = "write_stream"
  /\ Has(log[MainTask], "connect")
  /\ Has(log[MainTask], "write")
  /\ ~result[MainTask].ok
  /\ sock[MainTask] = "closed"

\* C24: every OLCP command (first, last, previous, next, go_to, order,
\* number_of, clear_mark) called on a client without the Object List Control
\* Point characteristic fails with NotSupported (previous, next and go_to
\* return it as an error, not as false) and performs no start_notify, no
\* characteristic write and no stop_notify.
C24_AbsentOlcp ==
  \A t \in Tasks :
    (/\ op[t] # NoOp
     /\ olcp_chr = NoChr
     /\ op[t].cmd \in {"first", "last", "previous", "next", "go_to", "order",
                       "number_of", "clear_mark"}) =>
      /\ pc[t] = "done"
      /\ result[t] = Err(NotSupported)
      /\ \A e \in ControlIo : ~Has(log[t], e)
      /\ \A p \in pending : p.tid # tid[t]
      /\ ~notifying["olcp"]

C24_Witness ==
  \E t \in Tasks :
    /\ olcp_chr = NoChr
    /\ list_features = ListAll
    /\ op[t] # NoOp
    /\ op[t].cmd = "go_to"
    /\ pc[t] = "done"
    /\ result[t] = Err(NotSupported)

\* C27: no operation of a constructed client, successful or failed, changes
\* the action and list feature bitsets, the resolved characteristic handles
\* or the security configuration fixed by new(): action_features() and
\* list_features() return the same value after any sequence of operations.
C27_ConfigurationFixed == [][config' = config]_vars

C27_Witness ==
  /\ pc[MainTask] = "idle"
  /\ calls = MaxCalls
  /\ action_features = ActionAll \ {"Write"}
  /\ list_features = {"NumberOf"}
  /\ olcp_chr = "olcp"

\* C23: metadata() returns Ok with current_size and allocated_size both None
\* when size() fails, and with empty properties when properties() fails; it
\* returns the error unchanged when id(), name(), type_(), first_created()
\* or last_modified() fails; the getters are called in the order id, name,
\* type, size, first_created, last_modified, properties and none is called
\* after one whose error propagates.
C23_MetadataErrors ==
  (fn = "metadata") =>
    LET res(g) == Getter(arg.env, g).r
        fatal == {i \in DOMAIN Getters :
                    /\ Getters[i] \notin {"size", "properties"}
                    /\ ~res(Getters[i]).ok}
        first == CHOOSE i \in fatal : \A j \in fatal : i <= j
    IN IF fatal = {}
       THEN /\ out.r.ok
            /\ out.calls = Getters
            /\ ~res("size").ok =>
                 /\ out.r.val.current_size = None
                 /\ out.r.val.allocated_size = None
            /\ ~res("properties").ok => out.r.val.properties = {}
       ELSE /\ out.r = res(Getters[first])
            /\ out.calls = SubSeq(Getters, 1, first)

C23_Witness ==
  /\ fn = "metadata"
  /\ ~arg.env.gatt.size.ok
  /\ arg.env.gatt.properties = Ok(<<0, 1, 0, 0>>)
  /\ out.r.ok
  /\ out.r.val.current_size = None
  /\ out.r.val.properties = {}
  /\ out.r.val.id = Some(<<1, 0, 0, 0>>)

\* C25: id(), first_created() and last_modified() return Ok(None) and
\* perform no GATT read when their optional characteristic is absent; when
\* it is present they perform exactly one GATT read of that characteristic
\* and return Some(decoded value) or the read or decode error.
C25_OptionalGetters ==
  (fn \in DOMAIN OptionalOf) =>
    LET raw == arg.env.gatt[fn]
        width == IF fn = "id" THEN 6 ELSE 7
    IN IF OptionalOf[fn] \notin arg.env.has
       THEN out.r = Ok(None) /\ out.reads = <<>>
       ELSE /\ out.reads = <<fn>>
            /\ ~raw.ok => out.r = Err(Bt)
            /\ (raw.ok /\ Len(raw.val) < width) =>
                 out.r = Err(Core(NotEnoughData(Len(raw.val), width)))
            /\ (raw.ok /\ Len(raw.val) >= width) =>
                 /\ out.r.ok
                 /\ out.r.val # None
                 /\ out.r.val =
                      Some(IF fn = "id"
                           THEN <<raw.val[1] + 256 * raw.val[2],
                                  raw.val[3] + 256 * raw.val[4],
                                  raw.val[5] + 256 * raw.val[6], 0>>
                           ELSE DateTimeFrom(raw.val, 1))

C25_Witness ==
  /\ fn = "first_created"
  /\ "crt_chr" \notin arg.env.has
  /\ arg.env.gatt.first_created.ok
  /\ out.r = Ok(None)
  /\ out.reads = <<>>

\* C26: OtsClient::new records an absent handle and still succeeds when the
\* lookup of an optional characteristic (OLCP, Object ID, First-Created,
\* Last-Modified) fails with a not-found error; it fails with the
\* collaborator's error when such a lookup fails with any other error, and
\* when the lookup of the service or of a mandatory characteristic
\* (Feature, OACP, Name, Type, Size, Properties) fails, also with not-found.
C26_OptionalLookups ==
  (fn = "new") =>
    LET l == arg.env.lookup
        mandatory == {"service", "ots_feature", "oacp_chr", "name_chr",
                      "type_chr", "size_chr", "prop_chr"}
        bad == {i \in DOMAIN NewSteps :
                  \/ NewSteps[i] \in mandatory /\ l[NewSteps[i]] # "found"
                  \/ NewSteps[i] \in OptionalChrs /\ l[NewSteps[i]] = "other"}
        first == CHOOSE i \in bad : \A j \in bad : i <= j
        feature == /\ arg.env.feature.ok
                   /\ Len(arg.env.feature.val) = 8
                   /\ FeatureTryFrom("action",
                          SubSeq(arg.env.feature.val, 1, 4)).ok
                   /\ FeatureTryFrom("list",
                          SubSeq(arg.env.feature.val, 5, 8)).ok
    IN /\ bad # {} => ~out.ok
       /\ (bad # {} /\ l["characteristics"] = "found"
              /\ (feature \/ first < 4)) =>
            out = Err(BtError(l[NewSteps[first]]))
       /\ (bad = {} /\ l["characteristics"] = "found" /\ feature
              /\ arg.env.adapter = "found") =>
            /\ out.ok
            /\ out.val.has = {c \in OptionalChrs : l[c] # "UuidNotFound"}

C26_Witness ==
  /\ fn = "new"
  /\ arg.env.lookup["olcp_chr"] = "UuidNotFound"
  /\ arg.env.lookup["crt_chr"] = "UuidNotFound"
  /\ out.ok
  /\ out.val.has = {"id_chr", "mod_chr"}
  /\ out.val.action_features = {0, 1, 4, 5}

\* C28: for every value v < 2^48, converting v to the 48-bit wire form (6
\* bytes, little-endian) and decoding it back gives v; for every 64-bit v
\* the round trip gives v mod 2^48, and the 6 bytes GoTo puts on the wire
\* are the same 6 bytes.
C28_Ule48RoundTrip ==
  (fn = "Ule48") =>
    /\ Len(out.raw) = 6
    /\ \A k \in 0..2 :
         out.raw[2 * k + 1] + 256 * out.raw[2 * k + 2] = arg.val[k + 1]
    /\ out.back = <<arg.val[1], arg.val[2], arg.val[3], 0>>
    /\ arg.val[4] = 0 => out.back = arg.val
    /\ Len(out.goto) = 7
    /\ SubSeq(out.goto, 2, 7) = out.raw

C28_Witness ==
  /\ fn = "Ule48"
  /\ arg.val = <<256, 1, 65535, 255>>
  /\ out.raw = <<0, 1, 1, 0, 255, 255>>
  /\ out.back = <<256, 1, 65535, 0>>
  /\ out.goto = <<ListOp.GoTo, 0, 1, 1, 0, 255, 255>>

\* C29: the fixed-width decoders accept an input only when its length is
\* exactly their width (the 48-bit identifier 6 bytes, Property 4 bytes,
\* Sizes 8 bytes): a shorter input yields NotEnoughData{actual, needed =
\* width}, and a longer input is rejected with TooManyData rather than
\* decoded from its prefix.
C29_ExactWidth ==
  (fn = "fixed") =>
    \A d \in {<<"Ule48", 6>>, <<"Property", 4>>, <<"Sizes", 8>>} :
      LET r == out[d[1]]
          len == Len(arg.raw)
      IN /\ len < d[2] => r = Err(NotEnoughData(len, d[2]))
         /\ len > d[2] => r = Err(TooManyData(len, d[2]))
         /\ len = d[2] =>
              (r.ok \/ r.err.e \notin {"NotEnoughData", "TooManyData"})

\* C30: for every 32-bit pattern p, Property decoding succeeds iff p has no
\* bit set outside bits 0..7, and then re-encoding gives p, otherwise it
\* fails with the properties error carrying p; for every 8-bit pattern f,
\* directory-flag decoding succeeds iff bit 6 is clear, otherwise it fails
\* with the directory-flags error carrying f; at construction an
\* action-feature word with a bit outside 0..9 or a list-feature word with a
\* bit outside 0..3 is rejected with BadActionFeatures / BadListFeatures.
C30_BitPatterns ==
  /\ (fn = "bits") =>
       LET p == arg.val
           f == p[1] % 256
       IN /\ out.Property.ok <=> (p[1] < 256 /\ p[2] = 0)
          /\ out.Property.ok => out.bits = p
          /\ ~out.Property.ok => out.Property = Err(InvalidProps(p))
          /\ out.DirFlag.ok <=> (f \div 64) % 2 = 0
          /\ ~out.DirFlag.ok => out.DirFlag = Err(InvalidDirFlags(f))
          /\ (p[1] >= 1024 \/ p[2] # 0) =>
               out.ActionFeature =
                 Err([e |-> "BadActionFeatures", bits |-> p])
          /\ (p[1] >= 16 \/ p[2] # 0) =>
               out.ListFeature = Err([e |-> "BadListFeatures", bits |-> p])
  /\ (fn = "new" /\ arg.env.feature.ok /\ Len(arg.env.feature.val) = 8
        /\ \A n \in {"service", "characteristics", "ots_feature"} :
             arg.env.lookup[n] = "found") =>
       LET raw == arg.env.feature.val
           a == <<raw[1] + 256 * raw[2], raw[3] + 256 * raw[4]>>
           l == <<raw[5] + 256 * raw[6], raw[7] + 256 * raw[8]>>
       IN IF a[1] >= 1024 \/ a[2] # 0
          THEN out = Err(Core([e |-> "BadActionFeatures", bits |-> a]))
          ELSE (l[1] >= 16 \/ l[2] # 0) =>
                 out = Err(Core([e |-> "BadListFeatures", bits |-> l]))

C30_Witness ==
  /\ fn = "bits"
  /\ arg.val = <<69, 0>>
  /\ out.Property = Ok({0, 2, 6})
  /\ out.bits = <<69, 0>>
  /\ out.DirFlag = Err(InvalidDirFlags(69))
  /\ out.ActionFeature.ok
  /\ out.ListFeature = Err([e |-> "BadListFeatures", bits |-> <<69, 0>>])

\* C31: for every byte buffer, also with record_len 0 or 1 or smaller than
\* the fixed prefix, iterating DirEntries to exhaustion ends without
\* aborting: every call of next() that yields an item strictly shrinks the
\* remaining buffer or marks the iterator done, and at most len(buffer)
\* items are produced.
C31_IterationTerminates ==
  /\ \A k \in DOMAIN yielded :
       LET y == yielded[k]
           after == IF k < Len(yielded)
                    THEN [raw |-> yielded[k + 1].from,
                          done |-> yielded[k + 1].was_done]
                    ELSE ents
       IN /\ ~y.panic
          /\ y.item # None =>
               (Len(after.raw) < Len(y.from) \/ after.done)
  /\ Cardinality({k \in DOMAIN yielded : yielded[k].item # None})
       <= Len(arg.v)

\* the opcode of the request the public method pub writes
OpcodeOf(pub) ==
  LET o == CHOOSE o \in Ops : o.cmd = pub
  IN ReqBytes(PointOf(pub), ReqOf(o, 1))[1]

\* C32: a command returns success only if the echoed-opcode byte (index 1)
\* of the response equals the opcode of the request that was written: a
\* success response that echoes a different opcode (70 02 01 in answer to
\* First, 60 06 01 in answer to Read) is not accepted as the result.
C32_EchoedOpcodeChecked ==
  (fn = "command" /\ out.r.ok) => arg.v[2] = OpcodeOf(out.pub)

\* the socket operations of a call, in the order it performed them
SocketOps(t) ==
  LET Test(e) ==
        e \in {"socket", "socket_err", "set_security", "set_security_err",
               "bind", "bind_err", "connect", "connect_err",
               "connect_err_late", "connect_timeout"}
  IN SelectSeq(log[t], Test)

\* the step a socket operation belongs to, and whether it failed
StepOf(e) ==
  CASE e \in {"socket", "socket_err"} -> "socket"
    [] e \in {"set_security", "set_security_err"} -> "set_security"
    [] e \in {"bind", "bind_err"} -> "bind"
    [] OTHER -> "connect"
Failed(e) == e \notin {"socket", "set_security", "bind", "connect"}

\* C33: in every bulk-transfer channel setup the socket operations occur in
\* the order create, set_security (performed if and only if a security
\* configuration was given to new()), bind to the adapter address, connect
\* to the device address; the failure of any step ends the setup with that
\* error and no later step is performed on that socket.
C33_SocketSetupOrder ==
  \A t \in Tasks :
    LET ops == SocketOps(t)
        order == <<"socket">>
                   \o (IF sock_security THEN <<"set_security">> ELSE <<>>)
                   \o <<"bind", "connect">>
    IN /\ Len(ops) <= Len(order)
       /\ \A i \in DOMAIN ops :
            /\ StepOf(ops[i]) = order[i]
            /\ Failed(ops[i]) =>
                 /\ i = Len(ops)
                 /\ pc[t] = "done"
                 /\ result[t] =
                      IF ops[i] = "connect_timeout" THEN Err(Timeout)
                      ELSE Err(Io)
                 /\ \A e \in ControlIo : ~Has(log[t], e)
       /\ (op[t] # NoOp /\ op[t].cmd \in Bulk /\ WriteIssued(t)) =>
            Len(ops) = Len(order)

C33_Witness ==
  /\ sock_security
  /\ pc[MainTask] = "done"
  /\ SocketOps(MainTask) = <<"socket", "set_security", "bind_err">>
  /\ result[MainTask] = Err(Io)

\* C34: read() and read_to() return Ok only after exactly `length` bytes
\* have been received from the stream, and write() returns Ok only after
\* exactly `length` bytes have been sent; a stream that reports end of data
\* (a 0-byte read) before `length` bytes were received yields an I/O error,
\* never a short Ok, and a would-block of the non-blocking socket is never
\* surfaced to the caller as an error.
C34_ExactTransfer ==
  (fn \in IoCmds) =>
    LET RECURSIVE sum(_)
        sum(i) == IF i = 0 THEN 0 ELSE yielded[i].n + sum(i - 1)
        last == yielded[Len(yielded)]
    IN /\ out.r.ok =>
            /\ sum(Len(yielded)) = arg.length
            /\ out.r = Ok(Usize(U64Of(arg.length)))
       /\ (yielded # <<>> /\ last.poll = "data" /\ last.n = 0) =>
            out.r = Err(Io)
       /\ (yielded # <<>> /\ last.poll = "would_block") => out.r = NoResult
       /\ out.r = Err(Io) => last.poll \in {"error", "data"}

C34_Witness ==
  /\ fn = "read_to"
  /\ arg.length = 3
  /\ yielded = <<Moved(1), WouldBlock, Moved(2)>>
  /\ out.r = Ok(Usize(U64Of(3)))

\* C35: decoding a byte as SortOrder succeeds exactly for 0x01..0x05 and
\* 0x11..0x15 and otherwise fails with BadOpCode{SortOrder, code = the
\* byte}; likewise ListOp succeeds exactly for 0x01..0x08 and 0x70, ListRc
\* for 0x01..0x08, ActionOp for 0x01..0x07 and 0x60, ActionRc for
\* 0x01..0x0a; a successful decode yields the variant whose code equals the
\* byte.
C35_CodeRanges ==
  (fn = "code") =>
    LET b == arg.code
        codes == [SortOrder |-> (1..5) \cup (17..21),
                  ListOp |-> (1..8) \cup {112},
                  ListRc |-> 1..8,
                  ActionOp |-> (1..7) \cup {96},
                  ActionRc |-> 1..10]
        table == [SortOrder |-> SortOrder, ListOp |-> ListOp,
                  ListRc |-> ListRc, ActionOp |-> ActionOp,
                  ActionRc |-> ActionRc]
    IN \A t \in DOMAIN codes :
         IF b \in codes[t]
         THEN /\ out[t].ok
              /\ out[t].val \in DOMAIN table[t]
              /\ table[t][out[t].val] = b
         ELSE out[t] = Err(BadOpCode(t, b))

C35_Witness ==
  /\ fn = "code"
  /\ arg.code = 17
  /\ out.SortOrder = Ok("NameDesc")
  /\ out.ListOp = Err(BadOpCode("ListOp", 17))
  /\ out.ActionRc = Err(BadOpCode("ActionRc", 17))

\* C36: for read_to, read_stream, write and write_stream called with an
\* offset greater than the object's size (current size for reads, allocated
\* size for writes), the computation size - offset neither wraps around nor
\* aborts the program: the call ends with an error or a zero-length
\* transfer, and the length sent in the OACP request is never greater than
\* the size.
C36_OffsetBeyondSize ==
  (fn = "BulkLengthOver") =>
    /\ out # Panic
    /\ out.ok => out.val.length = U64Of(0)

\* C37: a success response to NumberOf (marker 0x70) or to CheckSum (marker
\* 0x60) that has 3 to 6 bytes, too short for the 4-byte payload, yields
\* NotEnoughData with actual = the response length and needed = 7, the
\* minimal length of such a response, for both control points alike.
C37_ShortPayload ==
  LET n == Len(arg.v) IN
    /\ (fn = "ListRes" /\ n \in 3..6
          /\ SubSeq(arg.v, 1, 3)
               = <<ListOp.Response, ListOp.NumberOf, ListRc.Success>>) =>
         out.r = Err(NotEnoughData(n, 7))
    /\ (fn = "ActionRes" /\ n \in 3..6
          /\ SubSeq(arg.v, 1, 3)
               = <<ActionOp.Response, ActionOp.CheckSum, ActionRc.Success>>) =>
         out.r = Err(NotEnoughData(n, 7))

\* C38: the list command with the directory option reads the selected
\* object and parses it as a directory listing only when go_to(0) selected
\* object 0 (returned true); when go_to(0) reports that the object was not
\* found (Ok(false)) or fails, the command reads no object as a directory
\* and falls back to the first()/next() iteration.
C38_DirectoryOnlyIfSelected ==
  (fn = "list") =>
    IF arg.cli.dir /\ arg.cli.go_to = Ok(Bool(TRUE))
    THEN out.calls = <<"go_to", "read">>
    ELSE /\ \A i \in DOMAIN out.calls : out.calls[i] # "read"
         /\ out.print = "print_directory_iter"

====
